---- MODULE Spec2Model ----
(***************************************************************************)
(* Tracking and kinematic speed-estimation engine of the vehicle speed     *)
(* detection repository:                                                   *)
(*   - DepthSpeedTracker      (marius_test/RealSpeed2/depth_speed_tracker) *)
(*   - VehicleSpeedTracker    (packages/yolo_tracker/vehicle_speed_tracker)*)
(*   - CombinedTrackerWithMetrics (test_yolo_with_metric_grid)             *)
(*                                                                         *)
(* Number representation.  The code computes in floating point; the model  *)
(* computes in integers:                                                   *)
(*   pixel coordinates      integers (pixels)                              *)
(*   timestamps             integers t standing for t / fps seconds, i.e.  *)
(*                          process_frame's frame_number / self.fps        *)
(*   normalized depth       integers d standing for d / 100                *)
(*   speeds                 integers s standing for s / 100 km/h (floor)   *)
(*   pixel distances        compared through their squares (sqrt is        *)
(*                          strictly monotone), measured in 1/100 px when  *)
(*                          a length is needed                             *)
(* An optional value (None in the code) is <<>>, a value v is <<v>>.       *)
(***************************************************************************)
EXTENDS Integers, Sequences, FiniteSets, TLC

VARIABLES
    engine,             \* which tracker object the run drives:
                        \* "depth", "ratio" or "combined"
    clock_frozen,       \* the caller passes the same timestamp (the same
                        \* frame number) with every call
    \* ---- DepthSpeedTracker
    next_track_id,      \* self.next_track_id
    active_tracks,      \* self.active_tracks: insertion-ordered dict, as a
                        \* sequence of [id, last] entries
    track_history,      \* self.track_history: id -> sequence of samples
    speed_estimates,    \* self.speed_estimates: id -> speed
    focal_length,       \* self.focal_length (None until first needed)
    calibrated,         \* self.calibrated
    depth_scale_factor, \* self.depth_scale_factor (None, or a fraction)
    depth_offset,       \* self.depth_offset (None, or meters)
    objects,            \* candidates returned by the last assign_track_ids
    \* ---- VehicleSpeedTracker
    ratio_track_history,    \* self.track_history
    ratio_speed_estimates,  \* self.speed_estimates
    pixels_per_meter,       \* self.pixels_per_meter (None, or a fraction)
    calibration_done,       \* self.calibration_done
    reference_width_meters, \* self.reference_width_meters, in 1/10 m
    \* ---- CombinedTrackerWithMetrics (its tracker is the VehicleSpeedTracker)
    metric_track_history,   \* self.metric_track_history
    metric_speed_estimates, \* self.metric_speed_estimates
    bbox_speed_estimates,   \* self.bbox_speed_estimates
    transformer_calibrated, \* self.transformer_calibrated
    metric_transformer,     \* self.metric_transformer
    calibration_params,     \* self.calibration_params
    \* ---- the caller
    frame_number,       \* frame number of the last frame fed
    returned,           \* what the speed calls of the last call returned:
                        \* [tid, speed] (and "metric" in the combined tracker)
    last_input,         \* id -> position and time last fed for that track
    \* ---- history variables (observers, no counterpart in the code)
    issued,             \* every TrackID issued so far, in order of issue
    evicted,            \* every TrackID deleted from active_tracks so far
    appended,           \* id -> every sample ever appended to track_history
    ratio_appended,     \* the same for the ratio tracker's track_history
    metric_appended,    \* the same for metric_track_history
    pre,                \* active_tracks, track_history and issued as they
                        \* were when the last call started
    pre_estimates,      \* the three speed-estimate tables as they were when
                        \* the last call started
    ncalls,             \* number of calls made so far
    ncands,             \* number of candidates fed so far
    irregular_used,     \* an input off the regular motion has been fed
    transformer,        \* a CameraCalibrationTransformer used on its own
    lifecycle,          \* how it came to be: "none", "constructed", "failed"
                        \* (its constructor raised), "created" (without
                        \* arguments), "calibrated" (by calibrate)
    outcome,            \* the last call made on it: [op, args, error, value]
    horizon_log,        \* the last two results of get_horizon_line, each
                        \* with the transformer that gave it
    \* ---- DepthSpeedTracker, the stages of process_frame before the
    \* ---- assignment of track ids
    tracked_features,   \* the features handed to the last
                        \* cluster_features_into_objects call
    clusters,           \* (observer) the clusters that call formed: the
                        \* seed and cluster_indices of every pass of its
                        \* loop that marked points as used
    cluster_objects,    \* the objects that call returned
    prev_gray,          \* self.prev_gray: None, or the number of the frame
    prev_features,      \* self.prev_features: None, or the old positions
                        \* of the corners found in the previous frame
    global_motion,      \* self.global_motion: None, or a vector in 1/10 px
    use_motion_compensation,    \* self.use_motion_compensation
    flow,               \* (observer) the last detect_and_track_features
                        \* call: the scene it saw, self.global_motion
                        \* before it, what estimate_global_motion
                        \* returned in it, the
                        \* vector it subtracted, what it returned
    last_depth,         \* self.last_depth: None while the attribute does
                        \* not exist, else the frame the map was made from
    depth_estimated,    \* (observer) the last process_frame call ran
                        \* estimate_depth
    reference,          \* self.reference_distance and self.reference_depth
    conversion          \* (observer) the last depth_to_distance call made
                        \* on its own: the depth given, in 1/200, and the
                        \* distance returned, in 1/8 m

depth_vars == << next_track_id, active_tracks, track_history, speed_estimates,
                 focal_length, calibrated, depth_scale_factor, depth_offset,
                 objects >>

ratio_vars == << ratio_track_history, ratio_speed_estimates, pixels_per_meter,
                 calibration_done, reference_width_meters >>

metric_vars == << metric_track_history, metric_speed_estimates,
                  bbox_speed_estimates, transformer_calibrated,
                  metric_transformer, calibration_params >>

track_obs == << issued, evicted, pre, ncands >>

transform_vars == << transformer, lifecycle, outcome, horizon_log >>

tracker_vars == << engine, clock_frozen, depth_vars, ratio_vars, metric_vars,
                   frame_number, returned, last_input, track_obs, appended,
                   ratio_appended, metric_appended, pre_estimates, ncalls,
                   irregular_used >>

cluster_vars == << tracked_features, clusters, cluster_objects >>

flow_vars == << prev_gray, prev_features, global_motion, use_motion_compensation, flow,
                last_depth, depth_estimated >>

depth_obs == << reference, conversion >>

frame_vars == << cluster_vars, flow_vars, depth_obs >>

vars == << tracker_vars, transform_vars, frame_vars >>

None == << >>
Some(v) == << v >>

\* ------------------------------------------------------------------
\* Bounds of the model
MaxCalls == 3
MaxCands == 4
MaxSpeedCalls == 35

\* Program constants
track_timeout == 30
MatchRadius == 150
HistoryCap == 30
MinHistory == 15
SpeedWindow == 20
fps == 30
DefaultFocalLength == 1600
min_object_distance == 10
max_object_distance == 80
MinSpeed == 5
MaxSpeed == 120
MaxJump == 30
RatioHistoryCap == 30
RatioMinHistory == 10
RatioSpeedWindow == 15
RatioMaxSpeed == 200
MetricHistoryCap == 30
MetricMinHistory == 10
MetricSpeedWindow == 15
MetricMaxSpeed == 200

\* ------------------------------------------------------------------
\* Inputs: the candidates the clusterer can hand to the associator.  The
\* three centers lie 75 px apart on a line, so that the outer two are
\* exactly MatchRadius apart and the middle one is equally near to both.
Candidates ==
    { [center |-> << 0, 0 >>,    depth |-> 80],
      [center |-> << 45, 60 >>,  depth |-> 60],
      [center |-> << 90, 120 >>, depth |-> 40] }

ObjectLists(k) == UNION { [1..j -> Candidates] : j \in 0..k }

\* The caller's frame counter advances by one of these between two frames fed.
FrameSteps == { 1, 30 }

\* ------------------------------------------------------------------
\* Helpers on dicts and lists
Put(f, k, v) == [x \in (DOMAIN f) \cup {k} |-> IF x = k THEN v ELSE f[x]]

Get(f, k) == IF k \in DOMAIN f THEN f[k] ELSE << >>

LastN(s, n) == IF Len(s) <= n THEN s ELSE SubSeq(s, Len(s) - n + 1, Len(s))

Ids(active) == { active[i].id : i \in 1..Len(active) }

LastSeen(active, tid) ==
    LET i == CHOOSE j \in 1..Len(active) : active[j].id = tid IN active[i].last

\* np.linalg.norm(a - b), squared
Dist2(p, q) ==
    (p[1] - q[1]) * (p[1] - q[1]) + (p[2] - q[2]) * (p[2] - q[2])


\* ------------------------------------------------------------------
\* DepthSpeedTracker.assign_track_ids

\* "if frame_number - last_frame > self.track_timeout"
IsStaleAtTimeout(n, last) == n - last >= track_timeout

IsStale(n, last) == n - last > track_timeout

\* "Remove old tracks": the entries that survive, in their order
RemoveOldTracks(active, n) ==
    SelectSeq(active, LAMBDA e : ~IsStale(n, e.last))

\* "track_id in self.track_history and len(self.track_history[track_id]) > 0"
HasHistory(hist, tid) == tid \in DOMAIN hist /\ Len(hist[tid]) > 0

\* "self.track_history[track_id][-1][:2]"
LastPos(h) == << h[Len(h)][1], h[Len(h)][2] >>

RECURSIVE SetToSeq(_)
SetToSeq(S) ==
    IF S = {} THEN << >>
    ELSE LET m == CHOOSE x \in S : \A y \in S : x <= y
         IN << m >> \o SetToSeq(S \ {m})

\* "for track_id in self.active_tracks.keys()": the tracks one candidate is
\* compared with, in dict order.  acc is the state of the call so far.
ScanOrderEveryHistory(acc, hist) ==
    LET act == [i \in 1..Len(acc.active) |-> acc.active[i].id]
    IN act \o SetToSeq((DOMAIN hist) \ Ids(acc.active))

ScanOrderUnclaimed(acc, hist) ==
    SelectSeq([i \in 1..Len(acc.active) |-> acc.active[i].id],
              LAMBDA t : \A j \in 1..Len(acc.out) : acc.out[j].track_id # t)

ScanOrder(acc, hist) == [i \in 1..Len(acc.active) |-> acc.active[i].id]

\* "if dist < 150 and dist < best_match_dist"; best is None (infinity) or the
\* best match so far
IsBetterOrEqual(d2, best) ==
    /\ d2 < MatchRadius * MatchRadius
    /\ (best = None \/ d2 <= best[1].d2)

IsBetter(d2, best) ==
    /\ d2 < MatchRadius * MatchRadius
    /\ (best = None \/ d2 < best[1].d2)

\* The inner loop over the active tracks
RECURSIVE BestMatch(_, _, _, _, _)
BestMatch(order, hist, center, i, best) ==
    IF i > Len(order) THEN best
    ELSE LET tid == order[i] IN
         IF HasHistory(hist, tid)
         THEN LET d2 == Dist2(center, LastPos(hist[tid])) IN
              BestMatch(order, hist, center, i + 1,
                        IF IsBetter(d2, best)
                        THEN Some([id |-> tid, d2 |-> d2]) ELSE best)
         ELSE BestMatch(order, hist, center, i + 1, best)

\* "self.next_track_id += 1"
NextIdUnchanged(next) == next

NextId(next) == next + 1

\* "self.active_tracks[obj['track_id']] = frame_number": an existing key keeps
\* its place in the dict, a new key goes to the end
TouchNewOnly(active, tid, n) ==
    IF tid \in Ids(active) THEN active
    ELSE Append(active, [id |-> tid, last |-> n])

Touch(active, tid, n) ==
    IF tid \in Ids(active)
    THEN [i \in 1..Len(active) |->
            IF active[i].id = tid THEN [id |-> tid, last |-> n] ELSE active[i]]
    ELSE Append(active, [id |-> tid, last |-> n])

\* One iteration of "for obj in objects"
AssignOne(acc, obj, hist, n) ==
    LET best == BestMatch(ScanOrder(acc, hist), hist, obj.center, 1, None)
        tid  == IF best # None THEN best[1].id ELSE acc.next
    IN [ active |-> Touch(acc.active, tid, n),
         next   |-> IF best # None THEN acc.next ELSE NextId(acc.next),
         out    |-> Append(acc.out, [center |-> obj.center, depth |-> obj.depth,
                                     track_id |-> tid]),
         fresh  |-> IF best # None THEN acc.fresh ELSE Append(acc.fresh, tid) ]

\* "for obj in objects", with the position of each candidate entered into
\* the history of its track as soon as the candidate has its id
RECURSIVE AssignLoopAppending(_, _, _, _, _)
AssignLoopAppending(acc, objs, i, hist, n) ==
    IF i > Len(objs) THEN acc
    ELSE AssignLoopAppending(
             AssignOne(acc, objs[i], hist, n), objs, i + 1,
             Put(hist, AssignOne(acc, objs[i], hist, n).out[i].track_id,
                 Append(Get(hist,
                            AssignOne(acc, objs[i], hist, n).out[i].track_id),
                        << objs[i].center[1], objs[i].center[2],
                           objs[i].depth, n >>)),
             n)

RECURSIVE AssignLoop(_, _, _, _, _)
AssignLoop(acc, objs, i, hist, n) ==
    IF i > Len(objs) THEN acc
    ELSE AssignLoop(AssignOne(acc, objs[i], hist, n), objs, i + 1, hist, n)

\* The whole call: [active, next, out (the annotated candidates), fresh (the
\* ids issued, in order)]
AssignTrackIds(active, next, hist, objs, n) ==
    AssignLoop([ active |-> RemoveOldTracks(active, n), next |-> next,
                 out |-> << >>, fresh |-> << >> ],
               objs, 1, hist, n)


\* ------------------------------------------------------------------
\* Integer square root (floor), for np.linalg.norm
RECURSIVE ISqrtIn(_, _, _)
ISqrtIn(x, lo, hi) ==
    IF lo >= hi THEN lo
    ELSE LET mid == (lo + hi + 1) \div 2 IN
         IF mid * mid <= x THEN ISqrtIn(x, mid, hi) ELSE ISqrtIn(x, lo, mid - 1)

ISqrt(x) == ISqrtIn(x, 0, 46340)

\* np.linalg.norm of a pixel displacement, in 1/100 px
Norm100(dx, dy) == ISqrt(10000 * (dx * dx + dy * dy))

Abs(x) == IF x < 0 THEN -x ELSE x

Clip(x, lo, hi) == IF x < lo THEN lo ELSE IF x > hi THEN hi ELSE x

\* ------------------------------------------------------------------
\* DepthSpeedTracker.depth_to_distance.  The depth comes in 1/200 (the mean
\* of two depths given in 1/100 is their sum in 1/200); the distance is
\* returned in 1/8 m, in which the three segments are exact.
\* cal is [calibrated, scale, offset].
RawDistance(cal, d200) ==
    IF cal.calibrated
    THEN (8 * cal.scale[1].num * (200 - d200)) \div (200 * cal.scale[1].den)
         + 8 * cal.offset[1]
    ELSE IF d200 > 160 THEN 80 + 2 * (200 - d200)
    ELSE IF d200 > 80 THEN 160 + 3 * (160 - d200)
    ELSE 400 + 3 * (80 - d200)

\* The distance returned as computed, without np.clip
DepthToDistanceUnclamped(cal, d200) == RawDistance(cal, d200)

DepthToDistance(cal, d200) ==
    Clip(RawDistance(cal, d200), 8 * min_object_distance,
         8 * max_object_distance)

\* ------------------------------------------------------------------
\* DepthSpeedTracker.calculate_speed

\* "self.track_history[track_id].append(...)"
PrependSample(h, sample) == << sample >> \o h

AppendSample(h, sample) == Append(h, sample)

\* "if len(...) > 30: self.track_history[track_id] = ...[-30:]"
KeepOldest(h) == IF Len(h) > HistoryCap THEN SubSeq(h, 1, HistoryCap) ELSE h

KeepRecent(h) == IF Len(h) > HistoryCap THEN LastN(h, HistoryCap) ELSE h

\* "if len(self.track_history[track_id]) < 15: return None"
TooShortBelowTen(h) == Len(h) < 10

TooShort(h) == Len(h) < MinHistory

\* "history = self.track_history[track_id][-20:]"
RecentWindowOfThirty(h) == LastN(h, 30)

RecentWindow(h) == LastN(h, SpeedWindow)

\* "if 5 < speed_kmh < 120", on the exact speed q = num / den (1/100 km/h)
PlausibleClosed(q) ==
    /\ 100 * MinSpeed * q.den <= q.num
    /\ q.num <= 100 * MaxSpeed * q.den

Plausible(q) ==
    /\ 100 * MinSpeed * q.den < q.num
    /\ q.num < 100 * MaxSpeed * q.den

\* The jump limiter: "if abs(speed_kmh - prev_speed) > 30: average"
SmoothedRaw(speed, est, tid) == speed

Smoothed(speed, est, tid) ==
    IF tid \in DOMAIN est /\ Abs(speed - est[tid]) > 100 * MaxJump
    THEN (speed + est[tid]) \div 2
    ELSE speed

\* Lines 524-555: the speed of a window, as the exact fraction num / den of
\* 1/100 km/h, given its elapsed time dt > 0 in frames and the focal length
\* in pixels:  pixel_disp / 100 * distance8 / 8 / focal / (dt / fps) * 3.6
ExactSpeed(cal, first, last, focal) ==
    LET pixel_disp == Norm100(last[1] - first[1], last[2] - first[2])
        dt         == last[4] - first[4]
        distance8  == DepthToDistance(cal, first[3] + last[3])
    IN [ num |-> pixel_disp * distance8 * ((fps * 9) \div 10),
         den |-> 2 * focal * dt ]

\* The same, floored to 1/100 km/h
RawSpeed(cal, first, last, focal) ==
    LET q == ExactSpeed(cal, first, last, focal) IN q.num \div q.den

\* The whole call.  st is [hist, est, focal, cal]; the result adds "result",
\* the value returned.
DepthCalculateSpeed(st, tid, pos, depth, t) ==
    LET h     == KeepRecent(AppendSample(Get(st.hist, tid),
                                         << pos[1], pos[2], depth, t >>))
        hist2 == Put(st.hist, tid, h)
        stay  == [ hist |-> hist2, est |-> st.est, focal |-> st.focal,
                   cal |-> st.cal, result |-> None ]
    IN  IF TooShort(h) THEN stay
        ELSE LET w     == RecentWindow(h)
                 first == w[1]
                 last  == w[Len(w)]
             IN IF Len(w) < 2 THEN stay
                ELSE IF last[4] - first[4] <= 0 THEN stay
                ELSE LET focal == IF st.focal = None THEN DefaultFocalLength
                                  ELSE st.focal[1]
                         raw   == RawSpeed(st.cal, first, last, focal)
                         exact == ExactSpeed(st.cal, first, last, focal)
                         set   == [stay EXCEPT !.focal = Some(focal)]
                     IN IF Plausible(exact)
                        THEN LET speed == Smoothed(raw, st.est, tid) IN
                             [set EXCEPT !.est = Put(st.est, tid, speed),
                                         !.result = Some(speed)]
                        ELSE set

\* "for obj in objects: ... self.calculate_speed(track_id, center, depth,
\* current_time)" in process_frame; acc is a state with "results" added
RECURSIVE SpeedLoop(_, _, _, _)
SpeedLoop(acc, objs, i, t) ==
    IF i > Len(objs) THEN acc
    ELSE LET r == DepthCalculateSpeed(acc.st, objs[i].track_id, objs[i].center,
                                      objs[i].depth, t)
         IN SpeedLoop([ st |-> [hist |-> r.hist, est |-> r.est,
                                focal |-> r.focal, cal |-> r.cal],
                        results |-> Append(acc.results,
                                           [tid |-> objs[i].track_id,
                                            speed |-> r.result]) ],
                      objs, i + 1, t)

\* "current_time = frame_number / self.fps", in units of 1/fps s
CurrentTime(n) == n


\* ------------------------------------------------------------------
\* VehicleSpeedTracker (ratio pipeline).  A sample is << x, y, t, bbox_width >>.
\* rt is [hist, est, ppm, done, ref]: track_history, speed_estimates,
\* pixels_per_meter (None or a fraction num/den), calibration_done and
\* reference_width_meters (in 1/10 m).

\* Floor division that also takes a negative divisor (a >= 0)
SDiv(a, b) == IF b > 0 THEN a \div b ELSE -(a \div (-b))

\* "if not self.calibration_done and bbox_width > 0"
NeedsCalibrationAlways(rt, bbox_width) == bbox_width > 0

NeedsCalibration(rt, bbox_width) == ~rt.done /\ bbox_width > 0

\* "bbox_width_pixels / self.reference_width_meters" with a reference width
\* of 0: a Python number raises ZeroDivisionError, a numpy number (what
\* process_frame passes) gives inf
CalibrateScaleRaises(rt, numeric) == rt.ref = 0 /\ numeric = "python"

\* calibrate_scale: pixels_per_meter = bbox_width_pixels / reference width,
\* kept as the fraction num / den (den = 0: inf)
CalibrateScale(rt, bbox_width) ==
    [rt EXCEPT !.ppm = Some([num |-> 10 * bbox_width, den |-> rt.ref]),
               !.done = TRUE]

\* "if len(self.track_history[track_id]) > 30: ...[-30:]"
RatioKeepOldest(h) ==
    IF Len(h) > RatioHistoryCap THEN SubSeq(h, 1, RatioHistoryCap) ELSE h

RatioKeepRecent(h) ==
    IF Len(h) > RatioHistoryCap THEN LastN(h, RatioHistoryCap) ELSE h

\* "if len(self.track_history[track_id]) < 10: return None"
RatioTooShortBelowFive(h) == Len(h) < 5

RatioTooShort(h) == Len(h) < RatioMinHistory

\* "recent_history = history[-15:]"
RatioRecentWindowOfTwenty(h) == LastN(h, 20)

RatioRecentWindow(h) == LastN(h, RatioSpeedWindow)

\* "if 0 < speed_kmh < 200" (speed in 1/100 km/h)
RatioPlausible(speed) == 0 < speed /\ speed < 100 * RatioMaxSpeed

\* Lines 91-106: the speed of a window (1/100 km/h), dt # 0 in frames
RatioRawSpeed(first, last, ppm) ==
    LET displacement_pixels == Norm100(last[1] - first[1], last[2] - first[2])
        dt                  == last[3] - first[3]
        \* 1/10000 m: displacement_pixels/100 / (num/den)
        displacement_meters == (displacement_pixels * 100 * ppm.den) \div ppm.num
        speed_mps           == SDiv(displacement_meters * fps, dt)
    IN IF speed_mps >= 0 THEN (speed_mps * 36) \div 1000
       ELSE -((-speed_mps * 36) \div 1000)

\* "self.speed_estimates[track_id] = speed_kmh; return speed_kmh": the value
\* stored and returned for an in-range speed, the table being est
RatioEmittedSmoothed(speed, est, tid) == Smoothed(speed, est, tid)

RatioEmitted(speed, est, tid) == speed

\* The whole call calculate_speed(track_id, current_pos, current_time,
\* bbox_width); the result adds "result", the value returned
RatioCalculateSpeed(rt, tid, pos, t, bbox_width) ==
    LET cal   == IF NeedsCalibration(rt, bbox_width)
                 THEN CalibrateScale(rt, bbox_width) ELSE rt
        h     == RatioKeepRecent(Append(Get(rt.hist, tid),
                                        << pos[1], pos[2], t, bbox_width >>))
        stay  == [ hist |-> Put(rt.hist, tid, h), est |-> rt.est,
                   ppm |-> cal.ppm, done |-> cal.done, ref |-> rt.ref,
                   result |-> None ]
    IN  IF RatioTooShort(h) THEN stay
        ELSE LET w     == RatioRecentWindow(h)
                 first == w[1]
                 last  == w[Len(w)]
             IN IF Len(w) < 2 THEN stay
                ELSE IF last[3] - first[3] = 0 \/ ~cal.done THEN stay
                ELSE LET speed == RatioRawSpeed(first, last, cal.ppm[1]) IN
                     IF RatioPlausible(speed)
                     THEN [stay EXCEPT
                              !.est = Put(rt.est, tid,
                                          RatioEmitted(speed, rt.est, tid)),
                              !.result = Some(RatioEmitted(speed, rt.est, tid))]
                     ELSE stay

\* ------------------------------------------------------------------
\* CameraCalibrationTransformer (geometric pipeline).  Angles are in 1/1000
\* degree, lengths on the ground in millimetres, tangents in 1/10000.

TanTable ==
    << 0, 175, 349, 524, 699, 875, 1051, 1228, 1405, 1584,
       1763, 1944, 2126, 2309, 2493, 2679, 2867, 3057, 3249, 3443,
       3640, 3839, 4040, 4245, 4452, 4663, 4877, 5095, 5317, 5543,
       5774, 6009, 6249, 6494, 6745, 7002, 7265, 7536, 7813, 8098,
       8391, 8693, 9004, 9325, 9657, 10000, 10355, 10724, 11106, 11504,
       11918, 12349, 12799, 13270, 13764, 14281, 14826, 15399, 16003, 16643,
       17321, 18040, 18807, 19626, 20503, 21445, 22460, 23559, 24751, 26051,
       27475, 29042, 30777, 32709, 34874, 37321, 40108, 43315, 47046, 51446,
       56713, 63138, 71154, 81443, 95144, 114301, 143007, 190811, 286363,
       572900 >>

\* np.tan for an angle of 0 .. 89 degrees: the table, linearly interpolated
TanAcute(a) ==
    LET d == a \div 1000
        f == a % 1000
    IN IF f = 0 THEN TanTable[d + 1]
       ELSE TanTable[d + 1] + ((TanTable[d + 2] - TanTable[d + 1]) * f) \div 1000

\* np.tan(pi / 2), which is finite and positive in floating point, as far as
\* the integers reach
TanRightAngle == 1073741824

\* np.tan for an angle of 0 .. 90 degrees: above 89 degrees by the cotangent
\* of the complement
TanUpTo90(a) ==
    IF a <= 89000 THEN TanAcute(a)
    ELSE IF TanAcute(90000 - a) = 0 THEN TanRightAngle
    ELSE 100000000 \div TanAcute(90000 - a)

\* np.tan for an angle of 0 .. 180 degrees: negative beyond the right angle
TanObtuse(a) == IF a <= 90000 THEN TanUpTo90(a) ELSE -TanUpTo90(180000 - a)

\* np.tan on (-180, 180) degrees
Tan(a) == IF a >= 0 THEN TanObtuse(a) ELSE -TanObtuse(-a)

RECURSIVE GCD(_, _)
GCD(a, b) == IF b = 0 THEN a ELSE GCD(b, a % b)

\* np.arctan(num / den) for num, den > 0: the largest angle whose tangent
\* does not exceed the ratio, by bisection on 0 .. 89 degrees
RECURSIVE ArcTanIn(_, _, _, _)
ArcTanIn(num, den, lo, hi) ==
    IF lo >= hi THEN lo
    ELSE LET mid == (lo + hi + 1) \div 2 IN
         IF TanAcute(mid) * den <= num * 10000
         THEN ArcTanIn(num, den, mid, hi)
         ELSE ArcTanIn(num, den, lo, mid - 1)

ArcTan(num, den) ==
    LET g == GCD(num, den) IN ArcTanIn(num \div g, den \div g, 0, 89000)

\* The checks of lines 41-51 (camera_height in mm, focal_length and
\* sensor_width in 1/10 mm, tilt_angle in degrees)
ValidCalibrationTiltUnchecked(p) ==
    /\ p.camera_height > 0
    /\ p.focal_length > 0
    /\ p.sensor_width > 0

ValidCalibration(p) ==
    /\ p.camera_height > 0
    /\ -45 <= p.tilt_angle /\ p.tilt_angle <= 90
    /\ p.focal_length > 0
    /\ p.sensor_width > 0

\* Lines 53-67: the calibrated transformer.  p.camera_height is in mm,
\* p.focal_length and p.sensor_width in 1/10 mm, the angles in degrees.
Calibrated(p) ==
    [ is_calibrated  |-> TRUE,
      camera_height  |-> p.camera_height,
      tilt_angle     |-> 1000 * p.tilt_angle,
      pan_angle      |-> 1000 * p.pan_angle,
      image_width    |-> p.image_width,
      image_height   |-> p.image_height,
      fov_horizontal |-> 2 * ArcTan(p.sensor_width, 2 * p.focal_length),
      \* sensor_height = sensor_width * image_height / image_width
      fov_vertical   |-> 2 * ArcTan(p.sensor_width * p.image_height,
                                    2 * p.focal_length * p.image_width) ]

Uncalibrated == [ is_calibrated |-> FALSE ]

\* metric_transformer.calibrate(camera_height, tilt_angle, focal_length,
\* image_width, image_height, sensor_width): the one-shot calibration of a
\* transformer built without parameters; it derives what the constructor
\* derives, with the default pan angle
Calibrate(params, width, height) ==
    Calibrated([ camera_height |-> params.camera_height,
                 tilt_angle    |-> params.tilt_angle,
                 focal_length  |-> params.focal_length,
                 sensor_width  |-> params.sensor_width,
                 pan_angle     |-> 0,
                 image_width   |-> width,
                 image_height  |-> height ])

\* CameraCalibrationTransformer(camera_height, tilt_angle, focal_length,
\* image_width, image_height, sensor_width, pan_angle): the object __init__
\* leaves, uncalibrated by super().__init__() when a check raises
Construct(p) ==
    IF ValidCalibration(p) THEN [obj |-> Calibrated(p), error |-> None]
    ELSE [obj |-> Uncalibrated, error |-> Some("ValueError")]

\* Lines 132-151 of transform_point, for a calibrated transformer:
\* [ok, x, y, positive] with x and y in mm and positive telling
\* y_meters > 0, or [ok |-> FALSE, error]
ProjectPoint(tr, point) ==
    LET px == point[1]
        py == point[2]
        \* norm_x = (px - W/2) / (W/2);  alpha = norm_x * fov_horizontal / 2
        alpha == ((2 * px - tr.image_width) * tr.fov_horizontal)
                     \div (2 * tr.image_width)
        \* beta = -norm_y * fov_vertical / 2
        beta  == (-(2 * py - tr.image_height) * tr.fov_vertical)
                     \div (2 * tr.image_height)
        ray_elevation == beta - tr.tilt_angle
    IN IF ray_elevation >= 0 THEN [ok |-> FALSE, error |-> "ValueError"]
       ELSE LET t == Tan(Abs(ray_elevation))
                ground_distance ==
                    SDiv(tr.camera_height * 10000, IF t = 0 THEN 1 ELSE t)
                x_meters == LET tx == Tan(alpha + tr.pan_angle)
                                m  == Abs(ground_distance) * Abs(tx)
                            IN IF (tx >= 0) = (ground_distance >= 0)
                               THEN m \div 10000
                               ELSE -(m \div 10000)
            IN [ok |-> TRUE, x |-> x_meters, y |-> ground_distance,
                \* camera_height / tan(...) has the sign of the tangent
                positive |-> t >= 0]

\* transform_point: "if not self._is_calibrated: raise RuntimeError"
TransformPointUnchecked(tr, point) ==
    IF ~tr.is_calibrated THEN [ok |-> FALSE, error |-> "AttributeError"]
    ELSE ProjectPoint(tr, point)

TransformPoint(tr, point) ==
    IF ~tr.is_calibrated THEN [ok |-> FALSE, error |-> "RuntimeError"]
    ELSE ProjectPoint(tr, point)

\* transform_points: the points transformed in order; the first one that
\* raises ends the call with its error
TransformPoints(tr, points) ==
    IF ~tr.is_calibrated THEN [ok |-> FALSE, error |-> "RuntimeError"]
    ELSE LET rs == [i \in 1..Len(points) |-> TransformPoint(tr, points[i])]
         IN IF \E i \in 1..Len(rs) : ~rs[i].ok
            THEN rs[CHOOSE i \in 1..Len(rs) :
                       ~rs[i].ok /\ \A k \in 1..(i - 1) : rs[k].ok]
            ELSE [ok |-> TRUE, points |-> rs]

\* calculate_distance: the distance on the ground between two pixels, in mm
CalculateDistance(tr, point1, point2) ==
    IF ~tr.is_calibrated THEN [ok |-> FALSE, error |-> "RuntimeError"]
    ELSE LET p1_meters == TransformPoint(tr, point1)
             p2_meters == TransformPoint(tr, point2)
         IN IF ~p1_meters.ok THEN p1_meters
            ELSE IF ~p2_meters.ok THEN p2_meters
            ELSE [ok |-> TRUE,
                  distance |-> ISqrt((p2_meters.x - p1_meters.x)
                                         * (p2_meters.x - p1_meters.x)
                                     + (p2_meters.y - p1_meters.y)
                                         * (p2_meters.y - p1_meters.y))]

\* get_horizon_line: the row of the horizon as the fraction num / den,
\* norm_y * (H / 2) + H / 2 with norm_y = -tilt / (fov_vertical / 2)
GetHorizonLineTiltDown(tr) ==
    IF ~tr.is_calibrated THEN [ok |-> FALSE, error |-> "RuntimeError"]
    ELSE [ok |-> TRUE,
          horizon |-> [num |-> tr.image_height
                                  * (tr.fov_vertical + 2 * tr.tilt_angle),
                       den |-> 2 * tr.fov_vertical]]

GetHorizonLine(tr) ==
    IF ~tr.is_calibrated THEN [ok |-> FALSE, error |-> "RuntimeError"]
    ELSE [ok |-> TRUE,
          horizon |-> [num |-> tr.image_height
                                  * (tr.fov_vertical - 2 * tr.tilt_angle),
                       den |-> 2 * tr.fov_vertical]]

\* ------------------------------------------------------------------
\* CombinedTrackerWithMetrics.  mt is [hist, est, calibrated, tr]:
\* metric_track_history (samples << x, y, t >> in mm), metric_speed_estimates,
\* transformer_calibrated and the transformer.

\* "if len(self.metric_track_history[track_id]) > 30: ...[-30:]"
MetricKeepOldest(h) ==
    IF Len(h) > MetricHistoryCap THEN SubSeq(h, 1, MetricHistoryCap) ELSE h

MetricKeepRecent(h) ==
    IF Len(h) > MetricHistoryCap THEN LastN(h, MetricHistoryCap) ELSE h

\* "if len(self.metric_track_history[track_id]) < 10: return None"
MetricTooShortBelowFive(h) == Len(h) < 5

MetricTooShort(h) == Len(h) < MetricMinHistory

\* "recent_history = self.metric_track_history[track_id][-15:]"
MetricRecentWindowOfTwenty(h) == LastN(h, 20)

MetricRecentWindow(h) == LastN(h, MetricSpeedWindow)

\* "if 0 < speed_kmh < 200"
MetricPlausible(speed) == 0 < speed /\ speed < 100 * MetricMaxSpeed

\* Lines 92-105: the speed of a window (1/100 km/h), dt > 0 in frames
MetricRawSpeed(first, last) ==
    LET dx == last[1] - first[1]
        dy == last[2] - first[2]
        dt == last[3] - first[3]
        displacement_meters == ISqrt(dx * dx + dy * dy)     \* mm
        speed_mps == (displacement_meters * 10 * fps) \div dt \* 1/10000 m/s
    IN (speed_mps * 36) \div 1000

\* "self.metric_speed_estimates[track_id] = speed_kmh; return speed_kmh"
MetricEmittedSmoothed(speed, est, tid) == Smoothed(speed, est, tid)

MetricEmitted(speed, est, tid) == speed

\* "except (ValueError, RuntimeError) as e: return None": what the call
\* leaves when transform_point raised, same being the tracker as it was
ProjectionFailedRecorded(same, tid, t) ==
    [same EXCEPT !.hist = Put(same.hist, tid,
                              Append(Get(same.hist, tid), << 0, 0, t >>))]

ProjectionFailed(same, tid, t) == same

\* The whole call calculate_metric_speed(track_id, pixel_position,
\* current_time); the result adds "result", the value returned
CalculateMetricSpeed(mt, tid, point, t) ==
    LET same == [ hist |-> mt.hist, est |-> mt.est,
                  calibrated |-> mt.calibrated, tr |-> mt.tr,
                  result |-> None ]
    IN IF ~mt.calibrated THEN same
       ELSE LET m == TransformPoint(mt.tr, point) IN
            IF ~m.ok THEN ProjectionFailed(same, tid, t)
            ELSE
            LET h    == MetricKeepRecent(Append(Get(mt.hist, tid),
                                                << m.x, m.y, t >>))
                stay == [same EXCEPT !.hist = Put(mt.hist, tid, h)]
            IN IF MetricTooShort(h) THEN stay
               ELSE LET w     == MetricRecentWindow(h)
                        first == w[1]
                        last  == w[Len(w)]
                    IN IF Len(w) < 2 THEN stay
                       ELSE IF last[3] - first[3] <= 0 THEN stay
                       ELSE LET speed == MetricRawSpeed(first, last) IN
                            IF MetricPlausible(speed)
                            THEN [stay EXCEPT
                                     !.est = Put(mt.est, tid,
                                                 MetricEmitted(speed, mt.est,
                                                               tid)),
                                     !.result = Some(MetricEmitted(speed,
                                                                   mt.est,
                                                                   tid))]
                            ELSE stay

\* ------------------------------------------------------------------
\* The state after construction, before the first call
EmptyDict == [x \in {} |-> << >>]

\* "if reference_distance and reference_depth": given, and not zero
Truthy(x) == x # None /\ x[1] # 0

\* _calibrate_depth: scale = reference_distance / (1 - reference_depth +
\* 0.01), the depth in 1/100; offset = min_object_distance
CalibrateDepth(reference_distance, reference_depth) ==
    [ scale  |-> Some([num |-> 100 * reference_distance,
                       den |-> 101 - reference_depth]),
      offset |-> Some(min_object_distance) ]

\* DepthSpeedTracker.__init__(focal_length, reference_distance,
\* reference_depth), each None or a value
DepthConstructed(cfg) ==
    /\ next_track_id = 0
    /\ active_tracks = << >>
    /\ track_history = EmptyDict
    /\ speed_estimates = EmptyDict
    /\ focal_length = cfg.focal_length
    /\ reference = [ distance |-> cfg.reference_distance,
                     depth |-> cfg.reference_depth ]
    /\ calibrated =
           (Truthy(cfg.reference_distance) /\ Truthy(cfg.reference_depth))
    /\ depth_scale_factor =
           IF Truthy(cfg.reference_distance) /\ Truthy(cfg.reference_depth)
           THEN CalibrateDepth(cfg.reference_distance[1],
                               cfg.reference_depth[1]).scale
           ELSE None
    /\ depth_offset =
           IF Truthy(cfg.reference_distance) /\ Truthy(cfg.reference_depth)
           THEN CalibrateDepth(cfg.reference_distance[1],
                               cfg.reference_depth[1]).offset
           ELSE None
    /\ objects = << >>

\* The default arguments: no focal length, no reference pair
DefaultConfig ==
    [ focal_length |-> None, reference_distance |-> None,
      reference_depth |-> None ]

DepthInit == DepthConstructed(DefaultConfig)

\* VehicleSpeedTracker.__init__(reference_width_meters), in 1/10 m
RatioConstructed(reference_width) ==
    /\ ratio_track_history = EmptyDict
    /\ ratio_speed_estimates = EmptyDict
    /\ pixels_per_meter = None
    /\ calibration_done = FALSE
    /\ reference_width_meters = reference_width

\* The default reference width of 1.8 m
DefaultReferenceWidth == 18

RatioInit == RatioConstructed(DefaultReferenceWidth)

\* CombinedTrackerWithMetrics.__init__ with the default camera: height 1.4 m,
\* tilt -14 degrees, focal length 26 mm, sensor width 36 mm
MetricInit ==
    /\ metric_track_history = EmptyDict
    /\ metric_speed_estimates = EmptyDict
    /\ bbox_speed_estimates = EmptyDict
    /\ transformer_calibrated = FALSE
    /\ metric_transformer = Uncalibrated
    /\ calibration_params =
           [ camera_height |-> 1400, tilt_angle |-> -14, focal_length |-> 260,
             sensor_width |-> 360 ]

ObserverInit ==
    /\ frame_number = -1
    /\ returned = << >>
    /\ last_input = EmptyDict
    /\ issued = << >>
    /\ evicted = {}
    /\ appended = EmptyDict
    /\ ratio_appended = EmptyDict
    /\ metric_appended = EmptyDict
    /\ pre = [active |-> << >>, hist |-> EmptyDict, issued |-> << >>]
    /\ pre_estimates = [depth |-> EmptyDict, ratio |-> EmptyDict,
                        metric |-> EmptyDict]
    /\ ncalls = 0
    /\ ncands = 0
    /\ irregular_used = FALSE

Calibration ==
    [ calibrated |-> calibrated, scale |-> depth_scale_factor,
      offset |-> depth_offset ]

\* ==================================================================
\* SpecTrack: a DepthSpeedTracker fed frames with arbitrary candidates

\* No transformer is used on its own, and no frame has been processed
NoTransformer ==
    /\ transformer = Uncalibrated
    /\ lifecycle = "none"
    /\ outcome = [op |-> "none", args |-> << >>, error |-> None,
                  value |-> None]
    /\ horizon_log = << >>
    /\ tracked_features = << >>
    /\ clusters = << >>
    /\ cluster_objects = << >>
    /\ prev_gray = None
    /\ prev_features = None
    /\ global_motion = None
    /\ use_motion_compensation = TRUE
    /\ flow = [scene |-> None, before |-> None, estimate |-> None,
               subtracted |-> None, features |-> << >>]
    /\ last_depth = None
    /\ depth_estimated = FALSE
    /\ conversion = None

InitTrack ==
    /\ engine = "depth"
    /\ clock_frozen = FALSE
    /\ DepthInit /\ RatioInit /\ MetricInit /\ ObserverInit
    /\ NoTransformer

\* The samples a sequence of annotated candidates adds to the log
RECURSIVE LogLoop(_, _, _, _)
LogLoop(log, objs, i, t) ==
    IF i > Len(objs) THEN log
    ELSE LogLoop(Put(log, objs[i].track_id,
                     Append(Get(log, objs[i].track_id),
                            << objs[i].center[1], objs[i].center[2],
                               objs[i].depth, t >>)),
                 objs, i + 1, t)

\* A direct call assign_track_ids(objs, n)
AssignTrackIdsCall ==
    \E step \in FrameSteps, objs \in ObjectLists(MaxCands - ncands) :
        LET n == frame_number + step
            r == AssignTrackIds(active_tracks, next_track_id, track_history,
                                objs, n)
        IN /\ ncalls < MaxCalls
           /\ frame_number' = n
           /\ active_tracks' = r.active
           /\ next_track_id' = r.next
           /\ objects' = r.out
           /\ returned' = << >>
           /\ issued' = issued \o r.fresh
           /\ evicted' = evicted \cup
                  (Ids(active_tracks) \ Ids(RemoveOldTracks(active_tracks, n)))
           /\ pre' = [active |-> active_tracks, hist |-> track_history,
                      issued |-> issued]
           /\ ncalls' = ncalls + 1
           /\ ncands' = ncands + Len(objs)
           /\ UNCHANGED << frame_vars, transform_vars, engine, clock_frozen, track_history, speed_estimates, focal_length,
                           calibrated, depth_scale_factor, depth_offset,
                           ratio_vars, metric_vars, last_input, appended,
                           ratio_appended, metric_appended, pre_estimates,
                           irregular_used >>

\* process_frame(frame, n), the clusterer's output for the frame being objs
ProcessFrame ==
    \E step \in FrameSteps, objs \in ObjectLists(MaxCands - ncands) :
        LET n == frame_number + step
            r == AssignTrackIds(active_tracks, next_track_id, track_history,
                                objs, n)
            c == SpeedLoop([ st |-> [hist |-> track_history,
                                     est |-> speed_estimates,
                                     focal |-> focal_length,
                                     cal |-> Calibration],
                             results |-> << >> ],
                           r.out, 1, CurrentTime(n))
        IN /\ ncalls < MaxCalls
           /\ frame_number' = n
           /\ active_tracks' = r.active
           /\ next_track_id' = r.next
           /\ objects' = r.out
           /\ track_history' = c.st.hist
           /\ speed_estimates' = c.st.est
           /\ focal_length' = c.st.focal
           /\ returned' = c.results
           /\ issued' = issued \o r.fresh
           /\ evicted' = evicted \cup
                  (Ids(active_tracks) \ Ids(RemoveOldTracks(active_tracks, n)))
           /\ appended' = LogLoop(appended, r.out, 1, CurrentTime(n))
           /\ pre_estimates' = [depth |-> speed_estimates,
                               ratio |-> ratio_speed_estimates,
                               metric |-> metric_speed_estimates]
           /\ pre' = [active |-> active_tracks, hist |-> track_history,
                      issued |-> issued]
           /\ ncalls' = ncalls + 1
           /\ ncands' = ncands + Len(objs)
           /\ UNCHANGED << frame_vars, transform_vars, engine, clock_frozen, calibrated, depth_scale_factor, depth_offset,
                           ratio_vars, metric_vars, last_input,
                           ratio_appended, metric_appended, irregular_used >>

NextTrack == AssignTrackIdsCall \/ ProcessFrame

SpecTrack == InitTrack /\ [][NextTrack]_vars

\* ==================================================================
\* SpecSpeed: the speed estimators, each fed one sample per call for one of
\* two tracks.  A track moves regularly (Velocity pixels per frame, one frame
\* per sample); once in a run one input is off that motion.
TrackIds == { 0, 1 }

StartPos(tid) == << 400 + 300 * tid, 1000 >>

Velocity == << 4, 0 >>

Jump == << 240, 0 >>

TrackDepth(tid) == IF tid = 0 THEN 82 ELSE 40

\* The width of the bounding box reported for a track: a car's, a narrow
\* one, and for a "flat" input a degenerate box of width 0
BoxWidthOf(tid, kind) ==
    IF kind = "flat" THEN 0 ELSE IF tid = 0 THEN 90 ELSE 10

\* a pixel row above the horizon of the default camera
RowAboveHorizon == { 880 }

ImageSize == [ width |-> 1920, height |-> 1080 ]

InputKinds == { "regular", "stall", "jump", "pause" }

RatioKinds == InputKinds \cup { "flat" }

FrameKinds == RatioKinds \cup { "above", "second" }

\* The type of the numbers a caller passes
NumericTypes == { "python", "numpy" }

\* The position and time of the next sample of a track: the start, or the
\* last input moved on; "stall" repeats the timestamp, as every sample does
\* under a frozen clock, "jump" moves further, "pause" does not move
NextInput(tid, kind) ==
    IF tid \notin DOMAIN last_input THEN [pos |-> StartPos(tid), t |-> 0]
    ELSE LET l == last_input[tid]
             v == IF kind = "jump" THEN Jump
                  ELSE IF kind = "pause" THEN << 0, 0 >>
                  ELSE Velocity
         IN [ pos |-> << l.pos[1] + v[1], l.pos[2] + v[2] >>,
              t   |-> IF kind = "stall" \/ clock_frozen THEN l.t
                      ELSE l.t + 1 ]

\* A run has at most one input that is not regular, none under a frozen
\* clock or with a reference width of 0; a track starts with a regular or a
\* "flat" sample, and only a first sample is "flat"
Allowed(tid, kind) ==
    \/ kind = "regular"
    \/ /\ ~irregular_used
       /\ ~clock_frozen
       /\ reference_width_meters # 0
       /\ (tid \in DOMAIN last_input) = (kind # "flat")

\* The reference widths of the ratio tracker tried, in 1/10 m
ReferenceWidths == { DefaultReferenceWidth, 0 }

\* The constructor arguments of the depth tracker tried: the defaults; a
\* focal length at which the regular motion at 50 m has a speed of exactly
\* 5 km/h, and one at which it has exactly 120 km/h; a reference pair of
\* 20 m at depth 0.5
DepthConfigs ==
    { DefaultConfig,
      [DefaultConfig EXCEPT !.focal_length = Some(4320)],
      [DefaultConfig EXCEPT !.focal_length = Some(180)],
      [DefaultConfig EXCEPT !.reference_distance = Some(20),
                            !.reference_depth = Some(50)] }

InitSpeed ==
    /\ engine \in { "depth", "ratio", "combined" }
    /\ clock_frozen \in BOOLEAN
    /\ IF engine = "depth"
       THEN \E cfg \in DepthConfigs : DepthConstructed(cfg)
       ELSE DepthInit
    /\ IF engine = "ratio"
       THEN \E ref \in ReferenceWidths : RatioConstructed(ref)
       ELSE RatioInit
    /\ MetricInit /\ ObserverInit
    /\ NoTransformer

\* A call DepthSpeedTracker.calculate_speed(tid, pos, depth, t)
DepthCalculateSpeedCall ==
    \E tid \in TrackIds, kind \in InputKinds :
        LET in == NextInput(tid, kind)
            r  == DepthCalculateSpeed([hist |-> track_history,
                                       est |-> speed_estimates,
                                       focal |-> focal_length,
                                       cal |-> Calibration],
                                      tid, in.pos, TrackDepth(tid), in.t)
        IN /\ engine = "depth"
           /\ ncalls < MaxSpeedCalls
           /\ Allowed(tid, kind)
           /\ track_history' = r.hist
           /\ speed_estimates' = r.est
           /\ focal_length' = r.focal
           /\ returned' = << [tid |-> tid, speed |-> r.result] >>
           /\ pre_estimates' = [depth |-> speed_estimates,
                               ratio |-> ratio_speed_estimates,
                               metric |-> metric_speed_estimates]
           /\ appended' = Put(appended, tid,
                              Append(Get(appended, tid),
                                     << in.pos[1], in.pos[2], TrackDepth(tid),
                                        in.t >>))
           /\ last_input' = Put(last_input, tid, in)
           /\ irregular_used' = (irregular_used \/ kind # "regular")
           /\ ncalls' = ncalls + 1
           /\ UNCHANGED << frame_vars, transform_vars, engine, clock_frozen, next_track_id, active_tracks, calibrated,
                           depth_scale_factor, depth_offset, objects,
                           ratio_vars, metric_vars, frame_number, track_obs,
                           ratio_appended, metric_appended >>

\* What a call of calculate_speed that returned r leaves
RatioCallEffect(r, tid, in, width, kind) ==
    /\ ratio_track_history' = r.hist
    /\ ratio_speed_estimates' = r.est
    /\ pixels_per_meter' = r.ppm
    /\ calibration_done' = r.done
    /\ returned' = << [tid |-> tid, speed |-> r.result, error |-> None] >>
    /\ ratio_appended' = Put(ratio_appended, tid,
                             Append(Get(ratio_appended, tid),
                                    << in.pos[1], in.pos[2], in.t, width >>))
    /\ last_input' = Put(last_input, tid, in)

\* What a call of calculate_speed that raised in calibrate_scale leaves:
\* nothing was assigned or appended yet, and the sample is still to be fed
RatioCallRaised(tid) ==
    /\ returned' = << [tid |-> tid, speed |-> None,
                       error |-> Some("ZeroDivisionError")] >>
    /\ UNCHANGED << ratio_track_history, ratio_speed_estimates,
                    pixels_per_meter, calibration_done, ratio_appended,
                    last_input >>

\* A call VehicleSpeedTracker.calculate_speed(tid, pos, t, bbox_width)
RatioCalculateSpeedCall ==
    \E tid \in TrackIds, kind \in RatioKinds, numeric \in NumericTypes :
        LET in == NextInput(tid, kind)
            rt == [hist |-> ratio_track_history,
                   est |-> ratio_speed_estimates,
                   ppm |-> pixels_per_meter,
                   done |-> calibration_done,
                   ref |-> reference_width_meters]
        IN /\ engine = "ratio"
           /\ ncalls < MaxSpeedCalls
           /\ Allowed(tid, kind)
           /\ (numeric = "numpy" => reference_width_meters = 0)
           /\ IF /\ NeedsCalibration(rt, BoxWidthOf(tid, kind))
                 /\ CalibrateScaleRaises(rt, numeric)
              THEN RatioCallRaised(tid)
              ELSE RatioCallEffect(
                       RatioCalculateSpeed(rt, tid, in.pos, in.t,
                                           BoxWidthOf(tid, kind)),
                       tid, in, BoxWidthOf(tid, kind), kind)
           /\ pre_estimates' = [depth |-> speed_estimates,
                               ratio |-> ratio_speed_estimates,
                               metric |-> metric_speed_estimates]
           /\ irregular_used' = (irregular_used \/ kind # "regular")
           /\ ncalls' = ncalls + 1
           /\ UNCHANGED << frame_vars, transform_vars, engine, clock_frozen, depth_vars,
                           reference_width_meters, metric_vars, frame_number,
                           track_obs, appended, metric_appended >>

\* The state one iteration of "for box, track_id, ... in zip(...)" of
\* CombinedTrackerWithMetrics.process_frame leaves.  acc is [rt, mt, bbox,
\* out, rlog, mlog]; r1 is what calculate_bbox_speed's call of the ratio
\* tracker left, r2 what calculate_metric_speed left, projected the
\* transformed point.
DetectionResult(acc, tid, t, sample, r1, r2, projected) ==
    [ rt   |-> [hist |-> Put(r1.hist, tid,
                             \* lines 231-235: the second append, and trim
                             RatioKeepRecent(Append(r1.hist[tid], sample))),
                est |-> r1.est, ppm |-> r1.ppm, done |-> r1.done,
                ref |-> r1.ref],
      mt   |-> [hist |-> r2.hist, est |-> r2.est,
                calibrated |-> r2.calibrated, tr |-> r2.tr],
      \* calculate_bbox_speed: "if speed is not None: ...[track_id] = speed"
      bbox |-> IF r1.result # None THEN Put(acc.bbox, tid, r1.result[1])
               ELSE acc.bbox,
      out  |-> Append(acc.out, [tid |-> tid, speed |-> r1.result,
                                metric |-> r2.result]),
      rlog |-> Put(acc.rlog, tid, Get(acc.rlog, tid) \o << sample, sample >>),
      mlog |-> IF acc.mt.calibrated /\ projected.ok
               THEN Put(acc.mlog, tid,
                        Append(Get(acc.mlog, tid),
                               << projected.x, projected.y, t >>))
               ELSE acc.mlog ]

\* One iteration for the detection det = [box, track_id], at its bottom
\* center: "center_x = (x1 + x2) / 2; center_y = y2; bbox_width = x2 - x1"
DetectionAt(acc, tid, center, bbox_width, t) ==
    DetectionResult(acc, tid, t,
                    << center[1], center[2], t, bbox_width >>,
                    RatioCalculateSpeed(acc.rt, tid, center, t, bbox_width),
                    CalculateMetricSpeed(acc.mt, tid, center, t),
                    TransformPoint(acc.mt.tr, center))

DetectionStep(acc, det, t) ==
    DetectionAt(acc, det.track_id,
                << (det.box[1] + det.box[3]) \div 2, det.box[4] >>,
                det.box[3] - det.box[1], t)

RECURSIVE DetectionLoop(_, _, _, _)
DetectionLoop(acc, dets, i, t) ==
    IF i > Len(dets) THEN acc
    ELSE DetectionLoop(DetectionStep(acc, dets[i], t), dets, i + 1, t)

\* The bounding box the detector reports for a vehicle whose bottom center is
\* at pos
BoxAt(pos, width) ==
    << pos[1] - width \div 2, pos[2] - 60, pos[1] + width \div 2, pos[2] >>

\* The detections of a frame: track 0 where its motion put it ("above": in
\* the row above the horizon), and for "second" also track 1
Detections(kind, pos, row) ==
    << [box |-> BoxAt(IF kind = "above" THEN << pos[1], row >> ELSE pos,
                      BoxWidthOf(0, kind)),
        track_id |-> 0] >>
    \o (IF kind = "second"
        THEN << [box |-> BoxAt(StartPos(1), BoxWidthOf(1, kind)),
                 track_id |-> 1] >>
        ELSE << >>)

\* Lines 119-129: the first frame calibrates the transformer from its size
CalibratedOnce(done, tr, params) ==
    IF done THEN tr ELSE Calibrate(params, ImageSize.width, ImageSize.height)

\* The state process_frame leaves, c being what the loop over the frame's
\* detections left
CombinedFrameEffect(c, tr, n, pos, kind) ==
    /\ frame_number' = n
    /\ metric_transformer' = tr
    /\ transformer_calibrated' = TRUE
    /\ ratio_track_history' = c.rt.hist
    /\ ratio_speed_estimates' = c.rt.est
    /\ pixels_per_meter' = c.rt.ppm
    /\ calibration_done' = c.rt.done
    /\ metric_track_history' = c.mt.hist
    /\ metric_speed_estimates' = c.mt.est
    /\ bbox_speed_estimates' = c.bbox
    /\ returned' = c.out
    /\ pre_estimates' = [depth |-> speed_estimates,
                         ratio |-> ratio_speed_estimates,
                         metric |-> metric_speed_estimates]
    /\ ratio_appended' = c.rlog
    /\ metric_appended' = c.mlog
    /\ last_input' = Put(last_input, 0, [pos |-> pos, t |-> n])
    /\ irregular_used' = (irregular_used \/ kind # "regular")
    /\ ncalls' = ncalls + 1
    /\ UNCHANGED << frame_vars, transform_vars, engine, clock_frozen, depth_vars, reference_width_meters,
                    calibration_params, track_obs, appended >>

\* What process_frame does with the detections dets of frame n
CombinedFrame(dets, tr, n, pos, kind) ==
    CombinedFrameEffect(
        DetectionLoop([ rt |-> [hist |-> ratio_track_history,
                                est |-> ratio_speed_estimates,
                                ppm |-> pixels_per_meter,
                                done |-> calibration_done,
                                ref |-> reference_width_meters],
                        mt |-> [hist |-> metric_track_history,
                                est |-> metric_speed_estimates,
                                calibrated |-> TRUE, tr |-> tr],
                        bbox |-> bbox_speed_estimates,
                        out |-> << >>,
                        rlog |-> ratio_appended,
                        mlog |-> metric_appended ],
                      dets, 1, CurrentTime(n)),
        tr, n, pos, kind)

\* The number of the next frame fed: frames come in order, a "stall" feeds
\* the frame number of the last frame again
NextFrameNumber(kind) ==
    IF 0 \notin DOMAIN last_input THEN 0
    ELSE IF kind = "stall" \/ clock_frozen THEN frame_number
    ELSE frame_number + 1

\* CombinedTrackerWithMetrics.process_frame(frame, n): the first frame
\* calibrates the transformer from the frame's size; then every detection is
\* handed to both speed estimators.
CombinedProcessFrame ==
    \E kind \in FrameKinds, row \in RowAboveHorizon :
        /\ engine = "combined"
        /\ ncalls < MaxSpeedCalls
        /\ Allowed(0, kind)
        /\ ValidCalibration(calibration_params)
        /\ CombinedFrame(
               Detections(kind,
                          NextInput(0, IF kind \in InputKinds THEN kind
                                       ELSE "regular").pos,
                          row),
               CalibratedOnce(transformer_calibrated, metric_transformer,
                              calibration_params),
               NextFrameNumber(kind),
               NextInput(0, IF kind \in InputKinds THEN kind
                            ELSE "regular").pos,
               kind)

NextSpeed ==
    \/ DepthCalculateSpeedCall
    \/ RatioCalculateSpeedCall
    \/ CombinedProcessFrame

SpecSpeed == InitSpeed /\ [][NextSpeed]_vars

\* ==================================================================
\* calculate_metric_speed called on its own (SpecMetric): on a combined
\* tracker before and after its first frame, for pixels of two tracks on
\* the regular motion or in a row above the horizon.

MaxMetricCalls == 12

MetricKinds == { "regular", "above" }

InitMetric ==
    /\ engine = "metric"
    /\ clock_frozen = FALSE
    /\ DepthInit /\ RatioInit /\ MetricInit /\ ObserverInit
    /\ NoTransformer

\* process_frame on a frame without detections: lines 119-129 calibrate the
\* transformer, the loop over the detections does nothing
EmptyFrame ==
    /\ engine = "metric"
    /\ ~transformer_calibrated
    /\ ValidCalibration(calibration_params)
    /\ metric_transformer' = CalibratedOnce(transformer_calibrated,
                                            metric_transformer,
                                            calibration_params)
    /\ transformer_calibrated' = TRUE
    /\ returned' = << >>
    /\ UNCHANGED << frame_vars, transform_vars, engine, clock_frozen, depth_vars,
                    ratio_vars, metric_track_history, metric_speed_estimates,
                    bbox_speed_estimates, calibration_params, frame_number,
                    last_input, track_obs, appended, ratio_appended,
                    metric_appended, pre_estimates, ncalls, irregular_used >>

\* What a call calculate_metric_speed(tid, point, t) that left r leaves
MetricCallEffect(r, projected, tid, point, t) ==
    /\ metric_track_history' = r.hist
    /\ metric_speed_estimates' = r.est
    /\ returned' = << [tid |-> tid, metric |-> r.result, point |-> point,
                       t |-> t] >>
    /\ metric_appended' =
           IF transformer_calibrated /\ projected.ok
           THEN Put(metric_appended, tid,
                    Append(Get(metric_appended, tid),
                           << projected.x, projected.y, t >>))
           ELSE metric_appended

\* The pixel of a sample: where the motion put the track, or in the row
\* above the horizon
MetricPixel(pos, kind, row) ==
    IF kind = "above" THEN << pos[1], row >> ELSE pos

\* A call calculate_metric_speed(tid, point, t)
CalculateMetricSpeedCall ==
    \E tid \in TrackIds, kind \in MetricKinds, row \in RowAboveHorizon :
        LET in == NextInput(tid, "regular") IN
        /\ engine = "metric"
        /\ ncalls < MaxMetricCalls
        /\ MetricCallEffect(
               CalculateMetricSpeed([hist |-> metric_track_history,
                                     est |-> metric_speed_estimates,
                                     calibrated |-> transformer_calibrated,
                                     tr |-> metric_transformer],
                                    tid, MetricPixel(in.pos, kind, row),
                                    CurrentTime(in.t)),
               TransformPoint(metric_transformer,
                              MetricPixel(in.pos, kind, row)),
               tid, MetricPixel(in.pos, kind, row), CurrentTime(in.t))
        /\ pre_estimates' = [depth |-> speed_estimates,
                             ratio |-> ratio_speed_estimates,
                             metric |-> metric_speed_estimates]
        /\ last_input' = Put(last_input, tid, in)
        /\ ncalls' = ncalls + 1
        /\ UNCHANGED << frame_vars, transform_vars, engine, clock_frozen, depth_vars,
                        ratio_vars, bbox_speed_estimates,
                        transformer_calibrated, metric_transformer,
                        calibration_params, frame_number, track_obs, appended,
                        ratio_appended, irregular_used >>

NextMetric ==
    \/ EmptyFrame
    \/ CalculateMetricSpeedCall

SpecMetric == InitMetric /\ [][NextMetric]_vars

\* ==================================================================
\* A CameraCalibrationTransformer used on its own (SpecTransform): it is
\* constructed with parameters, or created without and calibrated, and its
\* projection methods are called.

ImageWidth == 1920
ImageHeight == 1080

\* The camera of the end-to-end example: height 1.4 m, tilt -14 degrees,
\* focal length 26 mm, sensor width 36 mm, a 1920 x 1080 image
ExampleCamera ==
    [ camera_height |-> 1400, tilt_angle |-> -14, focal_length |-> 260,
      sensor_width |-> 360, pan_angle |-> 0,
      image_width |-> ImageWidth, image_height |-> ImageHeight ]

\* The parameters tried: every tilt of Tilts at two camera heights, and the
\* example camera with one parameter out of range
Tilts == { -45, -14, 0, 10, 45, 80, 90 }

CameraHeights == { 1400, 2000 }

ValidInputs ==
    { [ExampleCamera EXCEPT !.camera_height = h, !.tilt_angle = a] :
          h \in CameraHeights, a \in Tilts }

InvalidInputs ==
    { [ExampleCamera EXCEPT !.camera_height = 0],
      [ExampleCamera EXCEPT !.camera_height = -100],
      [ExampleCamera EXCEPT !.tilt_angle = -46],
      [ExampleCamera EXCEPT !.tilt_angle = 91],
      [ExampleCamera EXCEPT !.focal_length = 0],
      [ExampleCamera EXCEPT !.sensor_width = 0] }

CalibrationInputs == ValidInputs \cup InvalidInputs

\* The pixels projected: the center column at the top and bottom rows and at
\* the rows next to the horizons of the tilts 10, 0 and -14, and a pixel off
\* the center
Rows == { 0, 286, 287, 540, 541, 895, 896, 1079 }

Pixels == { << 960, row >> : row \in Rows } \cup { << 1200, 1079 >> }

PixelLists ==
    { << >>,
      << << 960, 1079 >>, << 1200, 1079 >> >>,
      << << 960, 1079 >>, << 960, 0 >> >> }

PixelPairs ==
    { << << 960, 1079 >>, << 1200, 1079 >> >>,
      << << 960, 1079 >>, << 960, 1000 >> >>,
      << << 960, 0 >>, << 960, 1079 >> >> }

InitTransform ==
    /\ engine = "transformer"
    /\ clock_frozen = FALSE
    /\ DepthInit /\ RatioInit /\ MetricInit /\ ObserverInit
    /\ NoTransformer

\* What a call leaves in outcome, r being [ok, ...] or [ok |-> FALSE, error]
Outcome(op, args, r) ==
    [ op |-> op, args |-> args,
      error |-> IF r.ok THEN None ELSE Some(r.error),
      value |-> IF r.ok THEN Some(r) ELSE None ]

\* There is a transformer to call
Usable == lifecycle \in { "constructed", "created", "calibrated" }

\* What the constructor does with each of the parameters tried, and what
\* calibrate does with the valid ones
Constructions ==
    { [ args |-> p, obj |-> Construct(p).obj, error |-> Construct(p).error ] :
          p \in CalibrationInputs }

Calibrations ==
    { [ args |-> p, obj |-> Calibrate(p, p.image_width, p.image_height) ] :
          p \in { q \in CalibrationInputs : ValidCalibration(q) } }

\* transformer = CameraCalibrationTransformer(camera_height, tilt_angle, ...)
ConstructCall ==
    \E c \in Constructions :
        /\ engine = "transformer"
        /\ transformer' = c.obj
        /\ lifecycle' = IF c.error = None THEN "constructed" ELSE "failed"
        /\ outcome' = [ op |-> "__init__", args |-> << c.args >>,
                        error |-> c.error, value |-> None ]
        /\ UNCHANGED << frame_vars, tracker_vars, horizon_log >>

\* transformer = CameraCalibrationTransformer(): uncalibrated
CreateCall ==
    /\ engine = "transformer"
    /\ transformer' = Uncalibrated
    /\ lifecycle' = "created"
    /\ outcome' = [ op |-> "create", args |-> << >>, error |-> None,
                    value |-> None ]
    /\ UNCHANGED << frame_vars, tracker_vars, horizon_log >>

\* transformer.calibrate(camera_height, tilt_angle, focal_length,
\* image_width, image_height, sensor_width), once, on a transformer created
\* without arguments; parameters out of range raise and calibrate nothing
CalibrateCall ==
    \/ \E c \in Calibrations :
           /\ engine = "transformer"
           /\ lifecycle = "created"
           /\ transformer' = c.obj
           /\ lifecycle' = "calibrated"
           /\ outcome' = [ op |-> "calibrate", args |-> << c.args >>,
                           error |-> None, value |-> None ]
           /\ UNCHANGED << frame_vars, tracker_vars, horizon_log >>
    \/ \E p \in CalibrationInputs :
           /\ engine = "transformer"
           /\ lifecycle = "created"
           /\ ~ValidCalibration(p)
           /\ outcome' = [ op |-> "calibrate", args |-> << p >>,
                           error |-> Some("ValueError"), value |-> None ]
           /\ UNCHANGED << frame_vars, tracker_vars, transformer, lifecycle,
                           horizon_log >>

\* transformer.transform_point(point)
TransformPointCall ==
    \E point \in Pixels :
        /\ engine = "transformer"
        /\ Usable
        /\ outcome' = Outcome("transform_point", << point >>,
                              TransformPoint(transformer, point))
        /\ UNCHANGED << frame_vars, tracker_vars, transformer, lifecycle, horizon_log >>

\* transformer.transform_points(points)
TransformPointsCall ==
    \E points \in PixelLists :
        /\ engine = "transformer"
        /\ Usable
        /\ outcome' = Outcome("transform_points", << points >>,
                              TransformPoints(transformer, points))
        /\ UNCHANGED << frame_vars, tracker_vars, transformer, lifecycle, horizon_log >>

\* transformer.calculate_distance(point1, point2)
CalculateDistanceCall ==
    \E pair \in PixelPairs :
        /\ engine = "transformer"
        /\ Usable
        /\ outcome' = Outcome("calculate_distance", pair,
                              CalculateDistance(transformer, pair[1], pair[2]))
        /\ UNCHANGED << frame_vars, tracker_vars, transformer, lifecycle, horizon_log >>

\* transformer.get_horizon_line()
GetHorizonLineCall ==
    /\ engine = "transformer"
    /\ Usable
    /\ outcome' = Outcome("get_horizon_line", << >>,
                          GetHorizonLine(transformer))
    /\ horizon_log' =
           IF GetHorizonLine(transformer).ok
           THEN LastN(Append(horizon_log,
                             [ tr |-> transformer,
                               horizon |-> GetHorizonLine(transformer).horizon ]),
                      2)
           ELSE horizon_log
    /\ UNCHANGED << frame_vars, tracker_vars, transformer, lifecycle >>

NextTransform ==
    \/ ConstructCall
    \/ CreateCall
    \/ CalibrateCall
    \/ TransformPointCall
    \/ TransformPointsCall
    \/ CalculateDistanceCall
    \/ GetHorizonLineCall

SpecTransform == InitTransform /\ [][NextTransform]_vars


\* ==================================================================
\* Properties of the track associator (SpecTrack)

Range(q) == { q[i] : i \in 1..Len(q) }

\* The candidate was given an id issued by the last call
IsFresh(tid) == tid \in Range(issued) /\ tid \notin Range(pre.issued)

\* The entries of the table, as the last call found it, that were not older
\* than the timeout at the frame of the call
Retained == { i \in 1..Len(pre.active) :
                 frame_number - pre.active[i].last <= track_timeout }

\* Squared distance from a center to the position the track of entry i had
\* when the last call started
PreDist2(center, i) ==
    Dist2(center, LastPos(pre.hist[pre.active[i].id]))

\* The retained entries with a history whose position is within range
InRange(center) ==
    { i \in Retained :
         /\ HasHistory(pre.hist, pre.active[i].id)
         /\ PreDist2(center, i) < MatchRadius * MatchRadius }

\* The nearest of them, the earliest entry among equally near ones
Nearest(center) ==
    CHOOSE i \in InRange(center) :
        \A k \in InRange(center) :
            \/ PreDist2(center, i) < PreDist2(center, k)
            \/ (PreDist2(center, i) = PreDist2(center, k) /\ i <= k)

\* C1: TrackIDs are issued strictly increasing and never reused: every id
\* issued is greater than every id issued before it, so the ids issued are
\* pairwise distinct.
C1_IdsStrictlyIncreasing ==
    \A i, j \in 1..Len(issued) : i < j => issued[i] < issued[j]

\* C1 witness: ids were issued in two different calls, after an eviction
C1_Witness ==
    /\ Len(pre.issued) >= 1
    /\ Len(issued) > Len(pre.issued)
    /\ evicted # {}

C4_NearestNeighbour ==
    \A j \in 1..Len(objects) :
        IF InRange(objects[j].center) = {}
        THEN IsFresh(objects[j].track_id)
        ELSE objects[j].track_id = pre.active[Nearest(objects[j].center)].id

\* C4 witness: one call met a tie between two tracks (the earlier entry
\* won), a track exactly 150 px away (out of range), and a candidate with no
\* track in range (fresh id)
C4_Witness ==
    /\ \E j \in 1..Len(objects) : \E i, k \in InRange(objects[j].center) :
          /\ i < k
          /\ PreDist2(objects[j].center, i) = PreDist2(objects[j].center, k)
          /\ objects[j].track_id = pre.active[i].id
    /\ \E j \in 1..Len(objects), i \in Retained :
          /\ HasHistory(pre.hist, pre.active[i].id)
          /\ PreDist2(objects[j].center, i) = MatchRadius * MatchRadius
    /\ \E j \in 1..Len(objects) :
          /\ InRange(objects[j].center) = {}
          /\ IsFresh(objects[j].track_id)

\* C5: two candidates of one call with the same nearest in-range track are
\* both annotated with that track's id.
C5_NoMutualExclusion ==
    \A j1, j2 \in 1..Len(objects) :
        LET c1 == objects[j1].center
            c2 == objects[j2].center
        IN (/\ j1 < j2
            /\ InRange(c1) # {}
            /\ InRange(c2) # {}
            /\ Nearest(c1) = Nearest(c2))
           => /\ objects[j1].track_id = objects[j2].track_id
              /\ objects[j2].track_id = pre.active[Nearest(c2)].id

\* C5 witness: two candidates at different centers were given the id of one
\* existing track
C5_Witness ==
    \E j1, j2 \in 1..Len(objects) :
        /\ j1 < j2
        /\ objects[j1].center # objects[j2].center
        /\ objects[j1].track_id = objects[j2].track_id
        /\ objects[j1].track_id \in Ids(pre.active)

\* C6: after assign_track_ids(objects, n) every annotated id has
\* last_seen = n, and every track neither evicted nor assigned keeps its
\* last_seen.
C6_LastSeenUpdated ==
    ncalls > 0 =>
        /\ \A j \in 1..Len(objects) :
              /\ objects[j].track_id \in Ids(active_tracks)
              /\ LastSeen(active_tracks, objects[j].track_id) = frame_number
        /\ \A i \in 1..Len(pre.active) :
              LET e == pre.active[i] IN
              (/\ e.id \in Ids(active_tracks)
               /\ \A j \in 1..Len(objects) : objects[j].track_id # e.id)
              => LastSeen(active_tracks, e.id) = e.last

\* C6 witness: one call matched an older track, issued a new id and left a
\* third track untouched
C6_Witness ==
    /\ \E i \in 1..Len(pre.active), j \in 1..Len(objects) :
          /\ objects[j].track_id = pre.active[i].id
          /\ pre.active[i].last < frame_number
    /\ \E j \in 1..Len(objects) : IsFresh(objects[j].track_id)
    /\ \E i \in 1..Len(pre.active) :
          /\ pre.active[i].id \in Ids(active_tracks)
          /\ LastSeen(active_tracks, pre.active[i].id) < frame_number

\* C8 as stated: with strictly increasing frame numbers the timestamps of
\* each track's history are strictly increasing in insertion order.
C8_StrictlyIncreasingTimestamps ==
    \A tid \in DOMAIN track_history :
        \A i \in 1..(Len(track_history[tid]) - 1) :
            track_history[tid][i][4] < track_history[tid][i + 1][4]

\* C8 amended: the timestamps of each track's history never decrease, and
\* two neighbouring samples stamped with the current frame's time come from
\* two candidates of that frame annotated with the same id.
C8_NonDecreasingTimestamps ==
    \A tid \in DOMAIN track_history :
        \A i \in 1..(Len(track_history[tid]) - 1) :
            LET a == track_history[tid][i][4]
                b == track_history[tid][i + 1][4]
            IN /\ a <= b
               /\ (a = b /\ b = CurrentTime(frame_number))
                     => \E j1, j2 \in 1..Len(objects) :
                           /\ j1 < j2
                           /\ objects[j1].track_id = tid
                           /\ objects[j2].track_id = tid

\* C8 witness: a history holding samples of two frames and two samples of
\* one frame
C8_Witness ==
    \E tid \in DOMAIN track_history :
        \E i, k \in 1..(Len(track_history[tid]) - 1) :
            /\ track_history[tid][i][4] < track_history[tid][i + 1][4]
            /\ track_history[tid][k][4] = track_history[tid][k + 1][4]

\* ------------------------------------------------------------------
\* Properties of the speed estimators (SpecSpeed)

\* The history h is the last cap samples of the log, in the order appended
IsCappedTail(h, log, cap) == Len(h) <= cap /\ h = LastN(log, cap)

\* The first and last sample of the trailing n samples of h
Ends(h, n) == LET w == LastN(h, n) IN [first |-> w[1], last |-> w[Len(w)]]

\* C7: in the depth pipeline, the ratio pipeline and the geometric pipeline,
\* every track's history holds at most 30 samples, and they are exactly the
\* most recently appended samples, in the order they were appended.
C7_HistoryCap ==
    /\ DOMAIN track_history = DOMAIN appended
    /\ \A tid \in DOMAIN track_history :
           IsCappedTail(track_history[tid], appended[tid], 30)
    /\ DOMAIN ratio_track_history = DOMAIN ratio_appended
    /\ \A tid \in DOMAIN ratio_track_history :
           IsCappedTail(ratio_track_history[tid], ratio_appended[tid], 30)
    /\ DOMAIN metric_track_history = DOMAIN metric_appended
    /\ \A tid \in DOMAIN metric_track_history :
           IsCappedTail(metric_track_history[tid], metric_appended[tid], 30)

\* C7 witness: a track of the depth pipeline that was fed more than 30
\* samples, so that its oldest samples were dropped
C7_Witness ==
    \E tid \in DOMAIN track_history :
        /\ Len(appended[tid]) > 30
        /\ Len(track_history[tid]) = 30
        /\ track_history[tid][1] = appended[tid][Len(appended[tid]) - 29]
        /\ track_history[tid][1] # appended[tid][1]

\* The same in the ratio pipeline and in the geometric pipeline
C7_RatioOverflowed ==
    \E tid \in DOMAIN ratio_track_history :
        /\ engine = "ratio"
        /\ Len(ratio_appended[tid]) > 30
        /\ ratio_track_history[tid][1] # ratio_appended[tid][1]

C7_MetricOverflowed ==
    \E tid \in DOMAIN metric_track_history :
        /\ Len(metric_appended[tid]) > 30
        /\ metric_track_history[tid][1] # metric_appended[tid][1]

\* C9: in the depth pipeline, calculate_speed returns none and stores no
\* speed estimate for a track on each of its first 14 calls, that is, while
\* the track has been fed fewer than 15 samples.
C9_NoneBeforeFifteen ==
    engine = "depth" =>
        /\ \A tid \in DOMAIN appended :
               Len(appended[tid]) <= 14 => tid \notin DOMAIN speed_estimates
        /\ \A i \in 1..Len(returned) :
               Len(appended[returned[i].tid]) <= 14
                   => returned[i].speed = None

\* C9 witness: the 14th call for a track returned none and left it without
\* an estimate, while the other track, fed 15 samples or more, has one
C9_Witness ==
    /\ engine = "depth"
    /\ \E i \in 1..Len(returned) :
           /\ Len(appended[returned[i].tid]) = 14
           /\ returned[i].speed = None
           /\ returned[i].tid \notin DOMAIN speed_estimates
    /\ \E tid \in DOMAIN speed_estimates : Len(appended[tid]) >= 15

\* The speed a direct call of the ratio pipeline returned is the speed of
\* the ends of the trailing n samples, and the history has floor samples
RatioReturnedFrom(floor, n) ==
    engine = "ratio" =>
        \A i \in 1..Len(returned) :
            returned[i].speed # None =>
                LET h == ratio_track_history[returned[i].tid]
                    e == Ends(h, n)
                IN /\ Len(h) >= floor
                   /\ returned[i].speed[1] =
                          RatioRawSpeed(e.first, e.last, pixels_per_meter[1])

\* The same for the metric speed the combined tracker computed for a
\* detection of the frame
MetricReturnedFrom(floor, n) ==
    engine = "combined" =>
        \A i \in 1..Len(returned) :
            returned[i].metric # None =>
                LET h == metric_track_history[returned[i].tid]
                    e == Ends(h, n)
                IN /\ Len(h) >= floor
                   /\ returned[i].metric[1] = MetricRawSpeed(e.first, e.last)

\* C10 as stated: in the ratio pipeline and the geometric pipeline no speed
\* is returned for a track until its history has at least 15 samples, and a
\* returned speed is computed from the first and last samples of the
\* trailing 20 samples (of the whole history when it has fewer).
C10_FloorFifteenWindowTwenty ==
    /\ RatioReturnedFrom(15, 20)
    /\ MetricReturnedFrom(15, 20)

\* C10 amended: in the ratio pipeline and the geometric pipeline no speed is
\* returned for a track until its history has at least 10 samples, and a
\* returned speed is computed from the first and last samples of the
\* trailing 15 samples (of the whole history when it has fewer).
C10_FloorTenWindowFifteen ==
    /\ RatioReturnedFrom(10, 15)
    /\ MetricReturnedFrom(10, 15)
    /\ engine = "ratio" =>
           \A tid \in DOMAIN ratio_appended :
               Len(ratio_appended[tid]) < 10
                   => tid \notin DOMAIN ratio_speed_estimates
    /\ \A tid \in DOMAIN metric_appended :
           Len(metric_appended[tid]) < 10
               => tid \notin DOMAIN metric_speed_estimates

\* C10 witness: the ratio pipeline returned a speed for a track on its 10th
\* sample
C10_Witness ==
    /\ engine = "ratio"
    /\ \E i \in 1..Len(returned) :
           /\ returned[i].speed # None
           /\ Len(ratio_appended[returned[i].tid]) = 10

\* The geometric pipeline returned a speed on a track's 10th sample; a speed
\* was returned from a window that an irregular input made differ from the
\* trailing 20 samples
C10_MetricAtTen ==
    /\ engine = "combined"
    /\ \E i \in 1..Len(returned) :
           /\ returned[i].metric # None
           /\ Len(metric_appended[returned[i].tid]) = 10

C10_RatioWindowMatters ==
    /\ engine = "ratio"
    /\ \E i \in 1..Len(returned) :
           /\ returned[i].speed # None
           /\ LET h == ratio_track_history[returned[i].tid]
              IN RatioRawSpeed(Ends(h, 15).first, Ends(h, 15).last,
                               pixels_per_meter[1])
                     # RatioRawSpeed(Ends(h, 20).first, Ends(h, 20).last,
                                     pixels_per_meter[1])

\* The samples of the log are successive positions of the regular motion:
\* one frame and Velocity pixels apart, at one depth
IsRegular(log) ==
    \A i \in 1..(Len(log) - 1) :
        /\ log[i + 1][1] - log[i][1] = Velocity[1]
        /\ log[i + 1][2] - log[i][2] = Velocity[2]
        /\ log[i + 1][3] = log[i][3]
        /\ log[i + 1][4] - log[i][4] = 1

\* The speed (1/100 km/h) of an object at the given depth that moves Velocity
\* pixels per frame: pixels per second, times distance over focal length,
\* times 3.6
GroundTruth(depth, focal) ==
    (Norm100(Velocity[1], Velocity[2]) * fps
         * DepthToDistance(Calibration, 2 * depth) * 36)
        \div (8 * focal * 10)

\* C11: a speed the depth pipeline returns is the speed of the first and
\* last samples of the trailing min(20, history length) samples: their pixel
\* distance, times depth_to_distance of the mean of their depths, over the
\* focal length and the elapsed time, times 3.6 (passed through the jump
\* limiter); and a track fed exactly 20 samples of a constant-velocity,
\* constant-depth motion spaced one frame apart is returned its analytic
\* speed on the 20th.
C11_EndpointsOfWindow ==
    engine = "depth" =>
        \A i \in 1..Len(returned) :
            LET tid == returned[i].tid
                e   == Ends(track_history[tid], 20)
            IN /\ returned[i].speed # None =>
                      returned[i].speed[1] =
                          Smoothed(RawSpeed(Calibration, e.first, e.last,
                                            focal_length[1]),
                                   pre_estimates.depth, tid)
               /\ (Len(appended[tid]) = 20 /\ IsRegular(appended[tid])
                      /\ returned[i].speed # None) =>
                      returned[i].speed[1] =
                          GroundTruth(appended[tid][1][3], focal_length[1])

\* C11 witness: the 20th sample of a regular track was answered with its
\* analytic speed, and (in another state of the run) a speed was returned
\* from a window whose ends differ from the ends of the whole history
C11_Witness ==
    /\ engine = "depth"
    /\ \E i \in 1..Len(returned) :
           /\ Len(appended[returned[i].tid]) = 20
           /\ IsRegular(appended[returned[i].tid])
           /\ returned[i].speed # None
           /\ returned[i].speed[1] > 100 * MinSpeed

\* A speed was returned for a history longer than the window, holding an
\* irregular sample before the window
C11_WindowMatters ==
    /\ engine = "depth"
    /\ \E i \in 1..Len(returned) :
           LET h == track_history[returned[i].tid] IN
           /\ returned[i].speed # None
           /\ Len(h) > 20
           /\ RawSpeed(Calibration, h[1], h[Len(h)], focal_length[1])
                  # RawSpeed(Calibration, Ends(h, 20).first, Ends(h, 20).last,
                             focal_length[1])

Max(a, b) == IF a >= b THEN a ELSE b

\* The depth tracker was constructed with the default arguments
IsDefaultDepthTracker ==
    /\ engine = "depth"
    /\ ~calibrated
    /\ focal_length \in { None, Some(DefaultFocalLength) }

\* C12: in the depth pipeline a speed returned for a track that has a stored
\* estimate prev differs from prev by at most max(30 km/h, |raw - prev| / 2),
\* raw being the speed newly computed from the window (to the resolution of
\* the averaged value); and the stored estimate is always the speed last
\* returned for the track: a call that returns none leaves it as it was.
C12_JumpLimiter ==
    engine = "depth" =>
        \A i \in 1..Len(returned) :
            LET tid == returned[i].tid
                e   == Ends(track_history[tid], 20)
            IN IF returned[i].speed = None
               THEN /\ (tid \in DOMAIN speed_estimates)
                           = (tid \in DOMAIN pre_estimates.depth)
                    /\ tid \in DOMAIN speed_estimates
                           => speed_estimates[tid] = pre_estimates.depth[tid]
               ELSE /\ speed_estimates[tid] = returned[i].speed[1]
                    /\ tid \in DOMAIN pre_estimates.depth =>
                           LET prev == pre_estimates.depth[tid]
                               raw  == RawSpeed(Calibration, e.first, e.last,
                                                focal_length[1])
                           IN 2 * Abs(returned[i].speed[1] - prev)
                                  <= Max(2 * 100 * MaxJump, Abs(raw - prev) + 1)

\* C12 witness: the newly computed speed was more than 30 km/h off the stored
\* estimate, and the value returned and stored is halfway between them
C12_Witness ==
    /\ engine = "depth"
    /\ \E i \in 1..Len(returned) :
           LET tid == returned[i].tid
               e   == Ends(track_history[tid], 20)
           IN /\ returned[i].speed # None
              /\ tid \in DOMAIN pre_estimates.depth
              /\ Abs(RawSpeed(Calibration, e.first, e.last, focal_length[1])
                        - pre_estimates.depth[tid]) > 100 * MaxJump
              /\ speed_estimates[tid] = returned[i].speed[1]
              /\ returned[i].speed[1] # pre_estimates.depth[tid]

\* A speed was returned for a track after calls that returned none: the
\* track paused on its 16th sample, which kept the speed of every window
\* holding the pause below the range, and the 35th sample's window is the
\* first without it
C12_EmittedAfterNone ==
    /\ IsDefaultDepthTracker
    /\ \E i \in 1..Len(returned) :
           LET log == appended[returned[i].tid] IN
           /\ returned[i].speed # None
           /\ Len(log) = 35
           /\ log[16][1] = log[15][1]
           /\ returned[i].tid \in DOMAIN pre_estimates.depth

\* While the pause is in the window of track 0, the call returns none
C12_NoneWhilePaused ==
    IsDefaultDepthTracker =>
        \A i \in 1..Len(returned) :
            LET log == appended[returned[i].tid] IN
            (Len(log) \in 16..34 /\ log[16][1] = log[15][1]
                 /\ returned[i].tid = 0)
                => returned[i].speed = None

\* The speed newly computed by the ratio tracker's last direct call for the
\* i-th entry of returned, and by the combined tracker's metric estimator
RatioRawOf(i) ==
    LET e == Ends(ratio_track_history[returned[i].tid], 15)
    IN RatioRawSpeed(e.first, e.last, pixels_per_meter[1])

MetricRawOf(i) ==
    LET e == Ends(metric_track_history[returned[i].tid], 15)
    IN MetricRawSpeed(e.first, e.last)

\* A speed was returned for a track whose stored estimate was more than
\* 30 km/h off the newly computed speed
RatioJumped(i) ==
    /\ engine = "ratio"
    /\ returned[i].speed # None
    /\ returned[i].tid \in DOMAIN pre_estimates.ratio
    /\ Abs(RatioRawOf(i) - pre_estimates.ratio[returned[i].tid]) > 100 * MaxJump

MetricJumped(i) ==
    /\ engine = "combined"
    /\ returned[i].metric # None
    /\ returned[i].tid \in DOMAIN pre_estimates.metric
    /\ Abs(MetricRawOf(i) - pre_estimates.metric[returned[i].tid])
           > 100 * MaxJump

\* C13 as stated: in the ratio pipeline and the geometric pipeline, when the
\* new in-range estimate differs from the track's previous stored estimate
\* by more than 30 km/h, the value returned and stored is the average of the
\* two.
C13_SmoothedInEveryPipeline ==
    \A i \in 1..Len(returned) :
        /\ RatioJumped(i) =>
               LET avg == (RatioRawOf(i)
                              + pre_estimates.ratio[returned[i].tid]) \div 2
               IN /\ returned[i].speed[1] = avg
                  /\ ratio_speed_estimates[returned[i].tid] = avg
        /\ MetricJumped(i) =>
               LET avg == (MetricRawOf(i)
                              + pre_estimates.metric[returned[i].tid]) \div 2
               IN /\ returned[i].metric[1] = avg
                  /\ metric_speed_estimates[returned[i].tid] = avg

\* C13 amended: only the depth pipeline smooths.  In the ratio pipeline and
\* the geometric pipeline the value returned and stored is the newly
\* computed in-range speed itself, however far it is from the track's
\* previous stored estimate; in the depth pipeline it is the average when
\* the two differ by more than 30 km/h.
C13_SmoothedInDepthOnly ==
    \A i \in 1..Len(returned) :
        /\ (engine = "ratio" /\ returned[i].speed # None) =>
               /\ returned[i].speed[1] = RatioRawOf(i)
               /\ ratio_speed_estimates[returned[i].tid] = RatioRawOf(i)
        /\ (engine = "combined" /\ returned[i].metric # None) =>
               /\ returned[i].metric[1] = MetricRawOf(i)
               /\ metric_speed_estimates[returned[i].tid] = MetricRawOf(i)
        /\ (engine = "depth" /\ returned[i].speed # None
                /\ returned[i].tid \in DOMAIN pre_estimates.depth) =>
               LET e    == Ends(track_history[returned[i].tid], 20)
                   raw  == RawSpeed(Calibration, e.first, e.last,
                                    focal_length[1])
                   prev == pre_estimates.depth[returned[i].tid]
               IN returned[i].speed[1] =
                      IF Abs(raw - prev) > 100 * MaxJump
                      THEN (raw + prev) \div 2 ELSE raw

\* C13 witness: the ratio pipeline returned and stored a newly computed
\* speed more than 30 km/h off the estimate it had stored for the track
C13_Witness ==
    \E i \in 1..Len(returned) :
        /\ RatioJumped(i)
        /\ returned[i].speed[1] = RatioRawOf(i)
        /\ ratio_speed_estimates[returned[i].tid] = RatioRawOf(i)

\* The same in the geometric pipeline
C13_MetricJumpedRaw ==
    \E i \in 1..Len(returned) :
        /\ MetricJumped(i)
        /\ returned[i].metric[1] = MetricRawOf(i)

\* The exact speed the depth tracker's last call computed for the i-th entry
\* of returned, and whether the call got as far as computing one
DepthExactOf(i) ==
    LET e == Ends(track_history[returned[i].tid], 20)
    IN ExactSpeed(Calibration, e.first, e.last, focal_length[1])

DepthComputed(i) ==
    LET h == track_history[returned[i].tid]
        e == Ends(h, 20)
    IN engine = "depth" /\ Len(h) >= 15 /\ e.last[4] - e.first[4] > 0

RatioComputed(i) ==
    /\ engine = "ratio"
    /\ returned[i].tid \in DOMAIN ratio_track_history
    /\ LET h == ratio_track_history[returned[i].tid]
           e == Ends(h, 15)
       IN /\ Len(h) >= 10
          /\ e.last[3] - e.first[3] # 0 /\ calibration_done

MetricComputed(i) ==
    /\ engine = "combined"
    /\ returned[i].tid \in DOMAIN metric_track_history
    /\ LET h == metric_track_history[returned[i].tid]
           m == metric_appended[returned[i].tid]
           e == Ends(h, 15)
       IN /\ Len(h) >= 10
          /\ e.last[3] - e.first[3] > 0
          \* the frame's detection was projected
          /\ m[Len(m)][3] = CurrentTime(frame_number)

\* Every stored estimate of the three tables is strictly inside its range
StoredInsideRanges ==
    /\ \A tid \in DOMAIN speed_estimates :
           /\ 100 * MinSpeed < speed_estimates[tid]
           /\ speed_estimates[tid] < 100 * MaxSpeed
    /\ \A tid \in DOMAIN ratio_speed_estimates :
           /\ 0 < ratio_speed_estimates[tid]
           /\ ratio_speed_estimates[tid] < 100 * RatioMaxSpeed
    /\ \A tid \in DOMAIN metric_speed_estimates :
           /\ 0 < metric_speed_estimates[tid]
           /\ metric_speed_estimates[tid] < 100 * MetricMaxSpeed

RatioMetricOpenRange ==
    \A i \in 1..Len(returned) :
        /\ RatioComputed(i) =>
               ((returned[i].speed # None)
                    = (0 < RatioRawOf(i)
                          /\ RatioRawOf(i) < 100 * RatioMaxSpeed))
        /\ MetricComputed(i) =>
               ((returned[i].metric # None)
                    = (0 < MetricRawOf(i)
                          /\ MetricRawOf(i) < 100 * MetricMaxSpeed))

\* C14 as stated: a computed speed is returned (and stored) if and only if it
\* lies in the pipeline's range, the closed range [5, 120] km/h in the depth
\* pipeline and the open range (0, 200) km/h in the ratio and geometric
\* pipelines; otherwise the call returns none.
C14_ClosedDepthRange ==
    /\ RatioMetricOpenRange
    /\ \A i \in 1..Len(returned) :
           DepthComputed(i) =>
               LET q == DepthExactOf(i)
               IN (returned[i].speed # None)
                      = (100 * MinSpeed * q.den <= q.num
                            /\ q.num <= 100 * MaxSpeed * q.den)

\* C14 amended: the depth pipeline's range is the open range (5, 120) km/h
\* too: a computed speed is returned and stored if and only if it is
\* strictly inside the pipeline's range, and every stored estimate,
\* including a jump-limited average, is strictly inside it.
C14_OpenRanges ==
    /\ RatioMetricOpenRange
    /\ StoredInsideRanges
    /\ \A i \in 1..Len(returned) :
           /\ DepthComputed(i) =>
                  LET q == DepthExactOf(i)
                  IN (returned[i].speed # None)
                         = (100 * MinSpeed * q.den < q.num
                               /\ q.num < 100 * MaxSpeed * q.den)
           /\ (engine = "depth" /\ ~DepthComputed(i))
                  => returned[i].speed = None

\* C14 witness: the depth pipeline computed a speed of exactly 5 km/h and
\* returned none, storing nothing for the track
C14_Witness ==
    \E i \in 1..Len(returned) :
        /\ DepthComputed(i)
        /\ DepthExactOf(i).num = 100 * MinSpeed * DepthExactOf(i).den
        /\ returned[i].speed = None
        /\ returned[i].tid \notin DOMAIN speed_estimates

\* The same at exactly 120 km/h; and a speed above 200 km/h was computed and
\* dropped by the ratio pipeline
C14_ExactlyMaxSpeed ==
    \E i \in 1..Len(returned) :
        /\ DepthComputed(i)
        /\ DepthExactOf(i).num = 100 * MaxSpeed * DepthExactOf(i).den
        /\ returned[i].speed = None

C14_RatioDropped ==
    \E i \in 1..Len(returned) :
        RatioComputed(i) /\ returned[i].speed = None

\* The call the last step made raised
RaisedCall ==
    \E i \in 1..Len(returned) :
        "error" \in DOMAIN returned[i] /\ returned[i].error # None

\* The bounding-box widths the last step handed to the ratio tracker's
\* calculate_speed, in the order of the calls
WidthsOfCall ==
    [ i \in 1..Len(returned) |->
        LET log == ratio_appended[returned[i].tid] IN log[Len(log)][4] ]

\* The first positive one of them, if any
FirstPositive(ws) ==
    IF \E i \in 1..Len(ws) : ws[i] > 0
    THEN Some(ws[CHOOSE i \in 1..Len(ws) :
                    ws[i] > 0 /\ \A k \in 1..(i - 1) : ws[k] <= 0])
    ELSE None

\* What a step leaves of the calibration
CalibrationStep ==
    /\ depth_scale_factor' = depth_scale_factor
    /\ depth_offset' = depth_offset
    /\ calibrated' = calibrated
    /\ calibration_done =>
           (calibration_done' /\ pixels_per_meter' = pixels_per_meter)
    /\ (~calibration_done /\ engine # "depth" /\ ~RaisedCall') =>
           LET w == FirstPositive(WidthsOfCall') IN
           IF w = None
           THEN ~calibration_done' /\ pixels_per_meter' = None
           ELSE /\ calibration_done'
                /\ pixels_per_meter' =
                       Some([num |-> 10 * w[1], den |-> reference_width_meters])

\* C15: calibration is immutable once set.  No calculate_speed call and no
\* processed frame changes the depth tracker's scale factor, offset or
\* calibrated flag, which stay what the constructor set; the ratio tracker's
\* pixels_per_meter is set by the first calculate_speed call with
\* bbox_width > 0, to that width divided by the reference width, and no
\* later call changes it, whatever its width or track.
C15_CalibrationImmutable == [][CalibrationStep]_vars

\* C15 witness: the ratio tracker is calibrated and its last call had a
\* bounding box of a positive width other than the calibrating one
C15_Witness ==
    /\ engine = "ratio"
    /\ calibration_done
    /\ ~RaisedCall
    /\ reference_width_meters # 0
    /\ \E i \in 1..Len(returned) :
           /\ WidthsOfCall[i] > 0
           /\ 10 * WidthsOfCall[i] # pixels_per_meter[1].num

\* The first sample had a box of width 0 and the second sample calibrated
C15_CalibratedBySecondCall ==
    /\ engine = "ratio"
    /\ calibration_done
    /\ \E tid \in DOMAIN ratio_appended :
           /\ Len(ratio_appended[tid]) >= 2
           /\ ratio_appended[tid][1][4] = 0

\* A depth tracker calibrated by its constructor returned a speed
C15_CalibratedDepthUsed ==
    /\ engine = "depth"
    /\ calibrated
    /\ depth_scale_factor # None
    /\ \E i \in 1..Len(returned) : returned[i].speed # None

\* The history calculate_speed of the ratio tracker saw in the call made for
\* the i-th entry of returned: what it left, less the sample the combined
\* tracker appends after the call
RatioHistoryAtCall(i) ==
    LET h == ratio_track_history[returned[i].tid]
    IN IF engine = "combined" THEN SubSeq(h, 1, Len(h) - 1) ELSE h

\* The first and the last sample of the window of the call made for the
\* i-th entry of returned have the same timestamp
DepthZeroElapsed(i) ==
    /\ engine = "depth"
    /\ LET e == Ends(track_history[returned[i].tid], SpeedWindow)
       IN e.last[4] = e.first[4]

RatioZeroElapsed(i) ==
    /\ engine \in { "ratio", "combined" }
    /\ returned[i].tid \in DOMAIN ratio_track_history
    /\ LET e == Ends(RatioHistoryAtCall(i), RatioSpeedWindow)
       IN e.last[3] = e.first[3]

MetricZeroElapsed(i) ==
    /\ engine = "combined"
    /\ returned[i].tid \in DOMAIN metric_track_history
    /\ LET e == Ends(metric_track_history[returned[i].tid],
                     MetricSpeedWindow)
       IN e.last[3] = e.first[3]

\* In all three pipelines a call whose window has zero elapsed time returns
\* none
ZeroElapsedNone ==
    \A i \in 1..Len(returned) :
        /\ (DepthZeroElapsed(i) \/ RatioZeroElapsed(i))
               => returned[i].speed = None
        /\ MetricZeroElapsed(i) => returned[i].metric = None

\* C16: numerical degeneracy yields "no result" instead of a fault.  In all
\* three pipelines a speed call whose window's first and last samples have
\* zero elapsed time returns none, and in the ratio pipeline a reference
\* width of 0 never makes a call fail with a division by zero: the call
\* returns none.
C16_DegeneracyGuarded ==
    /\ ZeroElapsedNone
    /\ ~RaisedCall
    /\ reference_width_meters = 0 =>
           \A i \in 1..Len(returned) : returned[i].speed = None

\* C16, the part that holds: zero elapsed time returns none in all three
\* pipelines, and a call that does not raise with a reference width of 0
\* returns none
C16_NoneUnlessRaised ==
    /\ ZeroElapsedNone
    /\ reference_width_meters = 0 =>
           \A i \in 1..Len(returned) : returned[i].speed = None

\* C16 witness: a ratio tracker with a reference width of 0 was called with
\* a box of positive width and the call raised ZeroDivisionError
C16_Witness ==
    /\ engine = "ratio"
    /\ reference_width_meters = 0
    /\ RaisedCall
    /\ ~calibration_done

\* With numpy numbers the same tracker calibrated to inf and a call with a
\* full window returned none
C16_InfiniteScaleNone ==
    /\ engine = "ratio"
    /\ reference_width_meters = 0
    /\ calibration_done
    /\ pixels_per_meter[1].den = 0
    /\ \E i \in 1..Len(returned) :
           /\ Len(ratio_track_history[returned[i].tid]) >= RatioSpeedWindow
           /\ ~RatioZeroElapsed(i)
           /\ returned[i].speed = None

\* Calls with full windows of zero elapsed time were made in each pipeline
C16_DepthFrozen ==
    \E i \in 1..Len(returned) :
        /\ DepthZeroElapsed(i)
        /\ Len(track_history[returned[i].tid]) >= SpeedWindow

C16_RatioFrozen ==
    \E i \in 1..Len(returned) :
        /\ engine = "ratio"
        /\ calibration_done
        /\ RatioZeroElapsed(i)
        /\ Len(ratio_track_history[returned[i].tid]) >= RatioSpeedWindow

C16_MetricFrozen ==
    \E i \in 1..Len(returned) :
        /\ MetricZeroElapsed(i)
        /\ Len(metric_track_history[returned[i].tid]) >= MetricSpeedWindow


\* ==================================================================
\* Properties of the transformer used on its own (SpecTransform)

\* C17: geometric calibration fails fast.  Constructing a
\* CameraCalibrationTransformer with camera_height <= 0, focal_length <= 0,
\* sensor_width <= 0 or tilt_angle outside [-45, 90] raises an error and
\* leaves no calibrated transformer on which projection can be called; with
\* values inside those ranges it succeeds and is_calibrated is true.
C17_CalibrationFailsFast ==
    /\ outcome.op = "__init__" =>
           LET p == outcome.args[1] IN
           IF \/ p.camera_height <= 0
              \/ p.focal_length <= 0
              \/ p.sensor_width <= 0
              \/ p.tilt_angle < -45
              \/ p.tilt_angle > 90
           THEN /\ outcome.error = Some("ValueError")
                /\ lifecycle = "failed"
           ELSE /\ outcome.error = None
                /\ lifecycle = "constructed"
                /\ transformer.is_calibrated
    /\ lifecycle = "failed" =>
           (~transformer.is_calibrated /\ ~Usable /\ outcome.op = "__init__")

\* C17 witness: a tilt of 91 degrees was refused
C17_Witness ==
    /\ outcome.op = "__init__"
    /\ outcome.args[1].tilt_angle = 91
    /\ outcome.error = Some("ValueError")
    /\ ~transformer.is_calibrated

\* A camera height of 0 was refused, and a tilt of 90 degrees accepted
C17_ZeroHeightRefused ==
    /\ outcome.op = "__init__"
    /\ outcome.args[1].camera_height = 0
    /\ outcome.error = Some("ValueError")

C17_RightAngleAccepted ==
    /\ outcome.op = "__init__"
    /\ outcome.args[1].tilt_angle = 90
    /\ transformer.is_calibrated

ProjectionOps ==
    { "transform_point", "transform_points", "calculate_distance",
      "get_horizon_line" }

C18_PointRefused ==
    /\ lifecycle = "created"
    /\ outcome.op = "transform_point"
    /\ outcome.error = Some("RuntimeError")

C18_PointsRefused ==
    /\ lifecycle = "created"
    /\ outcome.op = "transform_points"
    /\ outcome.error = Some("RuntimeError")

C18_DistanceRefused ==
    /\ lifecycle = "created"
    /\ outcome.op = "calculate_distance"
    /\ outcome.error = Some("RuntimeError")

C18_HorizonRefused ==
    /\ lifecycle = "created"
    /\ outcome.op = "get_horizon_line"
    /\ outcome.error = Some("RuntimeError")

\* After it, the other three returned values
C18_CalibratedUsable ==
    /\ lifecycle = "calibrated"
    /\ outcome.op \in ProjectionOps \ { "transform_point" }
    /\ outcome.error = None

\* Two transformers differ in nothing but the tilt, or in nothing but the
\* camera height
SameButTilt(t, u) ==
    [t EXCEPT !.tilt_angle = 0] = [u EXCEPT !.tilt_angle = 0]

SameButHeight(t, u) ==
    [t EXCEPT !.camera_height = 0] = [u EXCEPT !.camera_height = 0]

\* C19: for valid calibrations, the horizon row returned by get_horizon_line
\* is strictly decreasing in tilt_angle with all other parameters fixed, is
\* independent of the camera height, and equals image_height / 2 at a tilt
\* of 0.
C19_HorizonDecreasingInTilt ==
    \A i, j \in 1..Len(horizon_log) :
        LET a == horizon_log[i]
            b == horizon_log[j]
        IN /\ a.horizon.den > 0
           /\ (SameButTilt(a.tr, b.tr) /\ a.tr.tilt_angle < b.tr.tilt_angle)
                  => /\ a.horizon.den = b.horizon.den
                     /\ a.horizon.num > b.horizon.num
           /\ SameButHeight(a.tr, b.tr) => a.horizon = b.horizon
           /\ a.tr.tilt_angle = 0
                  => 2 * a.horizon.num = a.tr.image_height * a.horizon.den

\* C19 witness: get_horizon_line was called on two transformers that differ
\* in the tilt only
C19_Witness ==
    /\ Len(horizon_log) = 2
    /\ SameButTilt(horizon_log[1].tr, horizon_log[2].tr)
    /\ horizon_log[1].tr.tilt_angle < horizon_log[2].tr.tilt_angle

\* On two that differ in the camera height only, and on one with tilt 0
C19_HeightsCompared ==
    /\ Len(horizon_log) = 2
    /\ SameButHeight(horizon_log[1].tr, horizon_log[2].tr)
    /\ horizon_log[1].tr.camera_height # horizon_log[2].tr.camera_height

C19_LevelCamera ==
    \E i \in 1..Len(horizon_log) : horizon_log[i].tr.tilt_angle = 0

\* The row of the pixel of the last transform_point call is strictly below
\* the horizon row get_horizon_line returns
BelowHorizon ==
    LET hz == GetHorizonLine(transformer).horizon
    IN outcome.args[1][2] * hz.den > hz.num

\* The row is in the image
InImage ==
    0 <= outcome.args[1][2] /\ outcome.args[1][2] < transformer.image_height

\* C20: for every valid calibration, tilt anywhere in [-45, 90], and every
\* pixel strictly below the horizon row, transform_point succeeds and
\* returns y_meters > 0; for every pixel at or above the horizon row it
\* fails with the above-horizon error.
C20_BelowHorizonPositive ==
    (outcome.op = "transform_point" /\ transformer.is_calibrated) =>
        IF BelowHorizon
        THEN /\ outcome.error = None
             /\ outcome.value[1].positive
             /\ outcome.value[1].y >= 0
        ELSE outcome.error = Some("ValueError")

\* C20, the part that holds: transform_point succeeds exactly for the pixels
\* strictly below the horizon row and fails with the above-horizon error
\* for the others, and y_meters > 0 for the rows of the image when the
\* lowest ray of the image is not beyond the vertical, tilt + fov_vertical
\* / 2 <= 90 degrees
C20_HorizonSplitsRows ==
    (outcome.op = "transform_point" /\ transformer.is_calibrated) =>
        IF BelowHorizon
        THEN /\ outcome.error = None
             /\ (InImage /\ 2 * transformer.tilt_angle
                                + transformer.fov_vertical <= 180000)
                    => (outcome.value[1].positive
                            /\ outcome.value[1].y >= 0)
        ELSE outcome.error = Some("ValueError")

\* C20 witness: with a tilt of 80 degrees the bottom row of the image,
\* below the horizon, was projected to y_meters < 0
C20_Witness ==
    /\ outcome.op = "transform_point"
    /\ transformer.is_calibrated
    /\ transformer.tilt_angle = 80000
    /\ outcome.args[1] = << 960, 1079 >>
    /\ BelowHorizon
    /\ outcome.error = None
    /\ outcome.value[1].y < 0

\* Rows next to the horizon on either side were projected: the row below
\* it to y_meters > 0, the row at or above it refused
C20_JustBelow ==
    /\ outcome.op = "transform_point"
    /\ transformer.is_calibrated
    /\ transformer.tilt_angle = -14000
    /\ outcome.args[1] = << 960, 896 >>
    /\ BelowHorizon
    /\ outcome.value[1].y > 0

C20_JustAbove ==
    /\ outcome.op = "transform_point"
    /\ transformer.is_calibrated
    /\ transformer.tilt_angle = -14000
    /\ outcome.args[1] = << 960, 895 >>
    /\ ~BelowHorizon
    /\ outcome.error = Some("ValueError")

\* The row exactly at the horizon of a level camera was refused
C20_AtHorizon ==
    /\ outcome.op = "transform_point"
    /\ transformer.is_calibrated
    /\ transformer.tilt_angle = 0
    /\ outcome.args[1] = << 960, 540 >>
    /\ outcome.error = Some("ValueError")


\* ==================================================================
\* Properties of calculate_metric_speed called on its own (SpecMetric)

\* The value a call returns when the projection succeeded and left the
\* history h: the speed of the window if one is computed and in range
MetricResultOf(h) ==
    LET e == Ends(h, MetricSpeedWindow) IN
    IF /\ Len(h) >= MetricMinHistory
       /\ e.last[3] - e.first[3] > 0
       /\ MetricPlausible(MetricRawSpeed(e.first, e.last))
    THEN Some(MetricRawSpeed(e.first, e.last))
    ELSE None

\* What a step that calls calculate_metric_speed does: a call whose
\* projection fails returns none and changes neither table; any other call,
\* whatever failed before it, appends the projected sample to its track's
\* history alone and returns the window's speed
MetricCallStep ==
    ncalls' = ncalls + 1 =>
        LET e == returned'[1]
            m == TransformPoint(metric_transformer, e.point)
        IN IF ~transformer_calibrated \/ ~m.ok
           THEN /\ e.metric = None
                /\ metric_track_history' = metric_track_history
                /\ metric_speed_estimates' = metric_speed_estimates
           ELSE /\ metric_track_history' =
                       Put(metric_track_history, e.tid,
                           MetricKeepRecent(
                               Append(Get(metric_track_history, e.tid),
                                      << m.x, m.y, e.t >>)))
                /\ e.metric = MetricResultOf(metric_track_history'[e.tid])
                /\ \A tid \in DOMAIN metric_speed_estimates \ { e.tid } :
                       metric_speed_estimates'[tid]
                           = metric_speed_estimates[tid]

\* C21: an above-horizon or uncalibrated projection is a per-call failure.
\* calculate_metric_speed then returns none, leaves the metric histories
\* and the metric speed estimates unchanged, and later calls for the same
\* or other tracks append and compute as if the failed call had not been
\* made.
C21_ProjectionFailureSkipsCall == [][MetricCallStep]_vars

\* C21 witness: a call for a track with a stored speed had its pixel above
\* the horizon and returned none
C21_Witness ==
    /\ engine = "metric"
    /\ transformer_calibrated
    /\ Len(returned) = 1
    /\ ~TransformPoint(metric_transformer, returned[1].point).ok
    /\ returned[1].metric = None
    /\ returned[1].tid \in DOMAIN metric_speed_estimates

\* A call on the tracker before its first frame returned none
C21_UncalibratedSkipped ==
    /\ engine = "metric"
    /\ ~transformer_calibrated
    /\ Len(returned) = 1
    /\ returned[1].metric = None
    /\ metric_track_history = EmptyDict

\* A call returned a speed for a track after a call for it had failed
C21_SpeedAfterFailure ==
    /\ engine = "metric"
    /\ Len(returned) = 1
    /\ returned[1].metric # None
    /\ last_input[returned[1].tid].t + 1
           > Len(metric_appended[returned[1].tid])

\* ==================================================================
\* SpecCluster: cluster_features_into_objects on lists of tracked
\* features. A feature is [new_pos, magnitude]: a pixel and the length of
\* its displacement in 1/10 px

MovementThreshold == 20
ClusterRadius == 80
MinClusterFeatures == 5

\* np.linalg.norm(q - p) squared
SqDist(p, q) ==
    (q[1] - p[1]) * (q[1] - p[1]) + (q[2] - p[2]) * (q[2] - p[2])

\* positions[valid_mask], tracked_features filtered by valid_mask
ValidFeatures(fs) ==
    SelectSeq(fs, LAMBDA f : f.magnitude > MovementThreshold)

\* cluster_indices: np.where(distances < 80) over all the positions
ClusterIndices(fs, i) ==
    { j \in 1..Len(fs) :
        SqDist(fs[i].new_pos, fs[j].new_pos) < ClusterRadius * ClusterRadius }

\* The loop over the positions, from position i on: found is the list of
\* the clusters whose points were marked as used so far
RECURSIVE ClusterLoop(_, _, _, _)
ClusterLoop(fs, i, used, found) ==
    IF i > Len(fs) THEN found
    ELSE IF i \in used THEN ClusterLoop(fs, i + 1, used, found)
    ELSE IF Cardinality(ClusterIndices(fs, i)) < MinClusterFeatures
         THEN ClusterLoop(fs, i + 1, used, found)
    ELSE ClusterLoop(fs, i + 1, used \cup ClusterIndices(fs, i),
                     Append(found, [ seed |-> i,
                                     cluster_indices |->
                                         ClusterIndices(fs, i) ]))

\* The clusters formed from a list of tracked features
FormedClusters(features) ==
    IF Len(features) = 0 THEN << >>
    ELSE IF Len(ValidFeatures(features)) < 3 THEN << >>
    ELSE ClusterLoop(ValidFeatures(features), 1, {}, << >>)

SetMin(S) == CHOOSE x \in S : \A y \in S : x <= y
SetMax(S) == CHOOSE x \in S : \A y \in S : x >= y

RECURSIVE SetSum(_)
SetSum(S) ==
    IF S = {} THEN 0
    ELSE LET x == SetMax(S) IN x + SetSum(S \ {x})

\* (x_min, y_min, x_max, y_max) of the positions of a cluster
ClusterBBox(fs, idx) ==
    << SetMin({ fs[j].new_pos[1] : j \in idx }),
       SetMin({ fs[j].new_pos[2] : j \in idx }),
       SetMax({ fs[j].new_pos[1] : j \in idx }),
       SetMax({ fs[j].new_pos[2] : j \in idx }) >>

\* The four filters on the bounding box; the aspect ratio
\* bbox_width / (bbox_height + 1e-6) is compared crosswise
CarSized(bbox) ==
    LET bbox_width == bbox[3] - bbox[1]
        bbox_height == bbox[4] - bbox[2]
        bbox_area == bbox_width * bbox_height
    IN  /\ ~(bbox_width < 40 \/ bbox_width > 300)
        /\ ~(bbox_height < 30 \/ bbox_height > 200)
        /\ ~(bbox_area < 1200 \/ bbox_area > 60000)
        /\ ~(10 * bbox_width <= 8 * bbox_height
               \/ bbox_width > 4 * bbox_height)

RECURSIVE SeqSum(_)
SeqSum(q) == IF q = << >> THEN 0 ELSE Head(q) + SeqSum(Tail(q))

\* cluster_positions.mean(axis=0), truncated as int(center[k]) does
ClusterCenter(fs, idx) ==
    LET members == SetToSeq(idx)
    IN  << SeqSum([k \in 1..Len(members) |-> fs[members[k]].new_pos[1]])
               \div Len(members),
           SeqSum([k \in 1..Len(members) |-> fs[members[k]].new_pos[2]])
               \div Len(members) >>

\* depth_map[cy, cx] with cx and cy clamped into the map; a depth map is
\* [shape, horizon, far, near]: far above the row horizon, near from it on
DepthAt(depth_map, center) ==
    LET cx == Max(0, IF center[1] < depth_map.shape[2] - 1
                     THEN center[1] ELSE depth_map.shape[2] - 1)
        cy == Max(0, IF center[2] < depth_map.shape[1] - 1
                     THEN center[2] ELSE depth_map.shape[1] - 1)
    IN  IF cy < depth_map.horizon THEN depth_map.far ELSE depth_map.near

\* The object appended for a cluster that passes the filters
ClusterObject(fs, c, depth_map) ==
    LET bbox == ClusterBBox(fs, c.cluster_indices)
    IN  [ center |-> ClusterCenter(fs, c.cluster_indices),
          depth |-> DepthAt(depth_map, ClusterCenter(fs, c.cluster_indices)),
          bbox |-> bbox,
          num_features |-> Cardinality(c.cluster_indices),
          bbox_area |-> (bbox[3] - bbox[1]) * (bbox[4] - bbox[2]),
          seed |-> c.seed ]

RECURSIVE ObjectsOf(_, _, _)
ObjectsOf(fs, found, depth_map) ==
    IF found = << >> THEN << >>
    ELSE (IF CarSized(ClusterBBox(fs, Head(found).cluster_indices))
          THEN << ClusterObject(fs, Head(found), depth_map) >>
          ELSE << >>)
         \o ObjectsOf(fs, Tail(found), depth_map)

\* cluster_features_into_objects(features, depth_map)
ClusterFeaturesIntoObjects(features, depth_map) ==
    ObjectsOf(ValidFeatures(features),
              FormedClusters(features), depth_map)

\* ---- inputs
Moving(x, y) == [ new_pos |-> << x, y >>, magnitude |-> 30 ]
Still(x, y) == [ new_pos |-> << x, y >>, magnitude |-> 15 ]

\* Two groups of moving points 90 px apart with points in between, a still
\* point among them, a tight group too small for a car, and a far point
FeaturePool ==
    << Moving(100, 100), Moving(140, 100), Moving(160, 130),
       Moving(120, 140), Moving(170, 100), Moving(190, 110),
       Still(150, 110), Moving(400, 300), Moving(405, 300) >>

RECURSIVE Masked(_, _)
Masked(pool, mask) ==
    IF pool = << >> THEN << >>
    ELSE (IF Head(mask) THEN << Head(pool) >> ELSE << >>)
         \o Masked(Tail(pool), Tail(mask))

ReverseSeq(q) == [ k \in 1..Len(q) |-> q[Len(q) + 1 - k] ]

\* Every sublist of the pool, in its order and in the reverse order
FeatureLists ==
    UNION { { Masked(FeaturePool, mask),
              ReverseSeq(Masked(FeaturePool, mask)) } :
            mask \in [ 1..Len(FeaturePool) -> BOOLEAN ] }

ExampleDepthMap ==
    [ shape |-> << 480, 640 >>, horizon |-> 120, far |-> 20, near |-> 70 ]

InitCluster ==
    /\ engine = "cluster"
    /\ clock_frozen = FALSE
    /\ DepthInit /\ RatioInit /\ MetricInit /\ ObserverInit
    /\ NoTransformer

\* objects = self.cluster_features_into_objects(tracked_features,
\*                                              self.last_depth)
ClusterCall ==
    \E fs \in FeatureLists :
        /\ engine = "cluster"
        /\ tracked_features' = fs
        /\ clusters' = FormedClusters(fs)
        /\ cluster_objects' = ClusterFeaturesIntoObjects(fs, ExampleDepthMap)
        /\ UNCHANGED << tracker_vars, transform_vars, flow_vars, depth_obs >>

NextCluster == ClusterCall

SpecCluster == InitCluster /\ [][NextCluster]_vars

\* C22: the clustering consumes points: no feature point is a member of two
\* of the clusters formed by one cluster_features_into_objects call
C22_NoSharedPoint ==
    \A a, b \in 1..Len(clusters) :
        a # b => clusters[a].cluster_indices
                     \cap clusters[b].cluster_indices = {}

\* What the loop does guarantee: the seed of a cluster is in no earlier
\* cluster, and a cluster is every valid point within the radius of its
\* seed, used or not
C22_SeedsUnused ==
    \A b \in 1..Len(clusters) :
        /\ \A a \in 1..(b - 1) :
               clusters[b].seed \notin clusters[a].cluster_indices
        /\ clusters[b].cluster_indices
               = ClusterIndices(ValidFeatures(tracked_features),
                                clusters[b].seed)
        /\ Cardinality(clusters[b].cluster_indices) >= MinClusterFeatures

\* Two objects were returned whose clusters share a feature point
C22_Witness ==
    /\ Len(cluster_objects) = 2
    /\ Len(clusters) = 2
    /\ clusters[1].cluster_indices \cap clusters[2].cluster_indices # {}

\* ==================================================================
\* SpecFrame: DepthSpeedTracker.process_frame on frames with at most two
\* corners to follow, so that the clusterer returns no object and the
\* assignment of track ids has nothing to do. Displacements are in
\* 1/10 px, the median and what is compensated by it in 1/20 px

MaxFrames == 6
MinStaticFeatures == 10
DepthEvery == 3

\* Insertion of x into a sorted sequence
RECURSIVE Insert(_, _)
Insert(x, q) ==
    IF q = << >> THEN << x >>
    ELSE IF x <= Head(q) THEN << x >> \o q
    ELSE << Head(q) >> \o Insert(x, Tail(q))

RECURSIVE Sorted(_)
Sorted(q) == IF q = << >> THEN << >> ELSE Insert(Head(q), Sorted(Tail(q)))

\* Twice np.median of a non-empty sequence: the middle element, or the
\* mean of the two middle elements
Median2(q) ==
    LET s == Sorted(q)
        n == Len(q)
    IN  IF n % 2 = 1 THEN 2 * s[(n + 1) \div 2]
        ELSE s[n \div 2] + s[n \div 2 + 1]

SqNorm(v) == v[1] * v[1] + v[2] * v[2]

\* good_next - good_prev of a scene: the motion of the border features
\* that were followed. Two of them are outliers; the others move with the
\* camera, or, in a split scene, alternate between 1 px and 4 px
MotionVectors(scene) ==
    [ k \in 1..(scene.static[1] - scene.lost) |->
        IF scene.split
        THEN (IF k % 2 = 1 THEN << 10, 0 >> ELSE << 40, 0 >>)
        ELSE IF k = 1 THEN << 200, 0 >>
        ELSE IF k = 2 THEN << -50, 90 >>
        ELSE scene.shake ]

\* estimate_global_motion(prev_gray, curr_gray): None, or the median motion
EstimateGlobalMotion(scene) ==
    IF scene.fault THEN None
    ELSE IF scene.static = None \/ scene.static[1] < MinStaticFeatures
         THEN None
    ELSE IF Len(MotionVectors(scene)) < MinStaticFeatures THEN None
    ELSE LET median_motion ==
                 << Median2([k \in 1..Len(MotionVectors(scene)) |->
                                MotionVectors(scene)[k][1]]),
                    Median2([k \in 1..Len(MotionVectors(scene)) |->
                                MotionVectors(scene)[k][2]]) >>
         IN  IF SqNorm(median_motion) > 40 * 40 THEN Some(median_motion)
             ELSE None

\* self.global_motion after the estimate of a frame, kept when the
\* estimate is None
UpdatedGlobalMotionStale(old, estimate) ==
    IF estimate = None THEN old ELSE estimate

\* self.global_motion = self.estimate_global_motion(...)
UpdatedGlobalMotion(old, estimate) == estimate

\* good_new - good_old of the corners followed from the previous frame: the
\* first corner is on the background, the second on a vehicle that moves
\* 4 px to the right
RawDisplacement(scene, k) ==
    IF k = 1 THEN scene.shake
    ELSE << scene.shake[1] + 40, scene.shake[2] >>

\* displacements - self.global_motion, in 1/20 px
Compensated(disp, motion) ==
    IF motion # None
    THEN << 2 * disp[1] - motion[1][1], 2 * disp[2] - motion[1][2] >>
    ELSE << 2 * disp[1], 2 * disp[2] >>

\* The entry of tracked_features for the corner k
TrackedFeature(old_pos, scene, k, motion) ==
    [ old_pos |-> old_pos,
      new_pos |-> << old_pos[1] + RawDisplacement(scene, k)[1],
                     old_pos[2] + RawDisplacement(scene, k)[2] >>,
      displacement |-> Compensated(RawDisplacement(scene, k), motion),
      magnitude |->
          ISqrt(SqNorm(Compensated(RawDisplacement(scene, k), motion))) ]

\* The loop over the followed corners: the entries that moved more than
\* 2.5 px
RECURSIVE TrackedFeatures(_, _, _, _)
TrackedFeatures(old, scene, k, motion) ==
    IF k > Len(old) THEN << >>
    ELSE (IF SqNorm(Compensated(RawDisplacement(scene, k), motion)) > 50 * 50
          THEN << TrackedFeature(old[k], scene, k, motion) >>
          ELSE << >>)
         \o TrackedFeatures(old, scene, k + 1, motion)

\* detect_and_track_features(gray_frame, frame_number) on the tracker self:
\* the fields it leaves and what it returns
DetectAndTrackFeatures(self, scene, n) ==
    IF self.prev_gray = None
    THEN [ prev_gray |-> Some(n), prev_features |-> scene.corners,
           global_motion |-> self.global_motion,
           estimate |-> None, subtracted |-> None, features |-> << >> ]
    ELSE LET estimate == IF self.use_motion_compensation
                         THEN EstimateGlobalMotion(scene) ELSE None
             motion == IF self.use_motion_compensation
                       THEN UpdatedGlobalMotion(self.global_motion, estimate)
                       ELSE self.global_motion
             followed == self.prev_features # None
                             /\ Len(self.prev_features[1]) > 0
         IN  [ prev_gray |-> Some(n), prev_features |-> scene.corners,
               global_motion |-> motion,
               estimate |-> estimate,
               subtracted |-> IF followed THEN motion ELSE None,
               features |-> IF followed
                            THEN TrackedFeatures(self.prev_features[1],
                                                 scene, 1, motion)
                            ELSE << >> ]

\* frame_number % 3 == 0 or not hasattr(self, 'last_depth'), with the
\* period 4
NeedsDepthEveryFourth(n, cached) == n % (DepthEvery + 1) = 0 \/ cached = None

\* frame_number % 3 == 0 or not hasattr(self, 'last_depth')
NeedsDepth(n, cached) == n % DepthEvery = 0 \/ cached = None

\* The features as the clusterer of the model takes them: positions in
\* whole pixels, magnitudes in 1/10 px
RECURSIVE AsPixels(_)
AsPixels(features) ==
    IF features = << >> THEN << >>
    ELSE << [ new_pos |-> << Head(features).new_pos[1] \div 10,
                             Head(features).new_pos[2] \div 10 >>,
              magnitude |-> Head(features).magnitude \div 2 ] >>
         \o AsPixels(Tail(features))

\* ---- inputs
Shakes == { << 0, 0 >>, << 15, 0 >>, << 12, 16 >>, << 30, -10 >>,
            << -30, -40 >> }

CornerLists == { None, Some(<< >>),
                 Some(<< << 1000, 2000 >>, << 3000, 2500 >> >>) }

\* What estimate_global_motion meets: << fault, static, lost, shake, split >>
SceneCases ==
    { << FALSE, Some(12), 0, sh, FALSE >> : sh \in Shakes }
    \cup { << TRUE, Some(12), 0, << 30, -10 >>, FALSE >>,
           << FALSE, None, 0, << 30, -10 >>, FALSE >>,
           << FALSE, Some(9), 0, << 30, -10 >>, FALSE >>,
           << FALSE, Some(10), 0, << 30, -10 >>, FALSE >>,
           << FALSE, Some(10), 1, << 30, -10 >>, FALSE >>,
           << FALSE, Some(12), 3, << 30, -10 >>, FALSE >>,
           << FALSE, Some(12), 1, << 30, -10 >>, FALSE >>,
           << FALSE, Some(10), 0, << 25, 0 >>, TRUE >>,
           << FALSE, Some(12), 1, << 10, 0 >>, TRUE >> }

Scenes ==
    { [ fault |-> x[1], static |-> x[2], lost |-> x[3], shake |-> x[4],
        split |-> x[5], corners |-> c ] :
        x \in SceneCases, c \in CornerLists }

InitFrame ==
    /\ engine = "frame"
    /\ clock_frozen = FALSE
    /\ DepthInit /\ RatioInit /\ MetricInit /\ ObserverInit
    /\ NoTransformer

\* process_frame(frame, frame_number): the depth map is taken from the
\* cache or made anew, the corners are followed, the clusterer is given
\* what was followed and returns no object
ProcessFrameCall(n, scene) ==
    \E d \in { DetectAndTrackFeatures(
                   [ prev_gray |-> prev_gray,
                     prev_features |-> prev_features,
                     global_motion |-> global_motion,
                     use_motion_compensation |-> use_motion_compensation ],
                   scene, n) } :
        \E fs \in { AsPixels(d.features) } :
            /\ engine = "frame"
            /\ n <= MaxFrames
            /\ frame_number' = n
            /\ depth_estimated' = NeedsDepth(n, last_depth)
            /\ last_depth' = IF NeedsDepth(n, last_depth) THEN Some(n)
                             ELSE last_depth
            /\ prev_gray' = d.prev_gray
            /\ prev_features' = d.prev_features
            /\ global_motion' = d.global_motion
            /\ flow' = [ scene |-> Some(scene), before |-> global_motion,
                         estimate |-> d.estimate,
                         subtracted |-> d.subtracted,
                         features |-> d.features ]
            /\ tracked_features' = fs
            /\ clusters' = FormedClusters(fs)
            /\ cluster_objects' = ClusterFeaturesIntoObjects(fs,
                                                             ExampleDepthMap)
            /\ UNCHANGED << use_motion_compensation, depth_obs,
                            transform_vars, engine,
                            clock_frozen, depth_vars, ratio_vars,
                            metric_vars, returned, last_input, track_obs,
                            appended, ratio_appended, metric_appended,
                            pre_estimates, ncalls >>

\* The video loop: the first frame has any number up to 2, every later
\* frame the next number
ConsecutiveFrame ==
    \E scene \in Scenes :
        \E n \in (IF frame_number = -1 THEN 0..2 ELSE { frame_number + 1 }) :
            /\ ProcessFrameCall(n, scene)
            /\ UNCHANGED irregular_used

\* A caller that skips a frame number
SkippedFrame ==
    \E scene \in Scenes :
        /\ frame_number # -1
        /\ ProcessFrameCall(frame_number + 2, scene)
        /\ irregular_used' = TRUE

NextFrame == ConsecutiveFrame \/ SkippedFrame

SpecFrame == InitFrame /\ [][NextFrame]_vars

\* The scene of the last frame gave estimate_global_motion too little to
\* go on: a fault, fewer than 10 border features found or followed, or a
\* camera motion not above 2.0 px
NoEstimateCase(scene) ==
    \/ scene.fault
    \/ scene.static = None
    \/ scene.static[1] < 10
    \/ scene.static[1] - scene.lost < 10
    \/ ~scene.split /\ SqNorm(scene.shake) <= 20 * 20
    \/ scene.split /\ (scene.static[1] - scene.lost) % 2 = 1

\* A frame was processed
FrameStep == frame_number' # frame_number

\* C23: in every frame after the first, estimate_global_motion returns none
\* exactly in the cases listed (fault, fewer than 10 border features found,
\* fewer than 10 followed, median motion not above 2.0 px); in such a
\* frame nothing is subtracted from the displacements and no motion vector
\* of an earlier frame is left in the tracker, whatever the frame before
\* had estimated
C23_CompensationPerFrameStep ==
    FrameStep /\ prev_gray # None =>
        /\ (flow'.estimate = None) = NoEstimateCase(flow'.scene[1])
        /\ global_motion' = flow'.estimate
        /\ (flow'.estimate = None =>
               /\ flow'.subtracted = None
               /\ \A k \in 1..Len(flow'.features) :
                      flow'.features[k].displacement
                          = << 2 * (flow'.features[k].new_pos[1]
                                      - flow'.features[k].old_pos[1]),
                               2 * (flow'.features[k].new_pos[2]
                                      - flow'.features[k].old_pos[2]) >>)

C23_CompensationPerFrame == [][C23_CompensationPerFrameStep]_vars

\* No estimate in a frame that follows a frame with an estimate, and a
\* feature was returned
C23_Witness ==
    /\ flow.before # None
    /\ flow.estimate = None
    /\ flow.features # << >>
    /\ global_motion = None

\* An estimate was subtracted: the corner on the background is dropped,
\* the corner on the vehicle is returned with its own 4 px
C23_Compensated ==
    /\ flow.estimate # None
    /\ flow.subtracted = flow.estimate
    /\ Len(flow.features) = 1
    /\ flow.features[1].displacement = << 80, 0 >>

\* The median of an even number of vectors is the mean of the middle two
C23_SplitMedian ==
    /\ flow.scene # None
    /\ flow.scene[1].split
    /\ flow.estimate = Some(<< 50, 0 >>)

\* C24: process_frame makes a new depth map exactly on the frames whose
\* number is a multiple of 3 or when there is no cached map, and otherwise
\* leaves the cached map as it is; when the frames come with consecutive
\* numbers, the map used at frame n was made at a frame from n - 2 to n
C24_DepthCachedStep ==
    FrameStep =>
        /\ depth_estimated'
               = (frame_number' % 3 = 0 \/ last_depth = None)
        /\ (depth_estimated' => last_depth' = Some(frame_number'))
        /\ (~depth_estimated' => last_depth' = last_depth)
        /\ (~irregular_used' =>
                /\ last_depth'[1] >= frame_number' - 2
                /\ last_depth'[1] <= frame_number')

C24_DepthCached == [][C24_DepthCachedStep]_vars

\* Consecutive frames, and the map in use was made two frames ago
C24_Witness ==
    /\ ~irregular_used
    /\ ~depth_estimated
    /\ last_depth = Some(frame_number - 2)

\* The first frame fed is not a multiple of 3 and a map was made
C24_FirstFrame ==
    /\ depth_estimated
    /\ frame_number % 3 # 0

\* A caller that skips frame numbers uses a map older than two frames
C24_SkippedFrames ==
    /\ irregular_used
    /\ last_depth # None
    /\ last_depth[1] < frame_number - 2

\* ==================================================================
\* SpecDepth: a DepthSpeedTracker constructed with any reference pair,
\* and depth_to_distance called on it with any depth

\* Depths in 1/200, from -0.2 to 1.2: DepthMargin below 0 and above 1
DepthMargin == 40

ReferenceDistances == { None, Some(0), Some(10), Some(20), Some(50),
                        Some(80), Some(100) }

\* in 1/100
ReferenceDepths == { None, Some(0), Some(25), Some(50), Some(93), Some(100) }

ReferenceConfigs ==
    { [DefaultConfig EXCEPT !.reference_distance = rd,
                            !.reference_depth = d] :
        rd \in ReferenceDistances, d \in ReferenceDepths }

InitDepth ==
    /\ engine = "distance"
    /\ clock_frozen = FALSE
    /\ \E cfg \in ReferenceConfigs : DepthConstructed(cfg)
    /\ RatioInit /\ MetricInit /\ ObserverInit
    /\ NoTransformer

\* self.depth_to_distance(depth_value)
DepthToDistanceCall ==
    \E d200 \in (0 - DepthMargin)..(200 + DepthMargin) :
        /\ engine = "distance"
        /\ conversion' = Some([ depth |-> d200,
                                distance |-> DepthToDistance(Calibration,
                                                             d200) ])
        /\ UNCHANGED << tracker_vars, transform_vars, cluster_vars,
                        flow_vars, reference >>

NextDepth == DepthToDistanceCall

SpecDepth == InitDepth /\ [][NextDepth]_vars

\* The uncalibrated distance at a depth given in 1/100, in 1/8 m
Heuristic(d100, meters) ==
    conversion'[1].depth = 2 * d100 => conversion'[1].distance = 8 * meters

\* C25: depth_to_distance returns a distance from 10 m to 80 m for every
\* depth, inside [0, 1] or not, calibrated or not; uncalibrated, a larger
\* depth never gives a larger distance, and the depths 1.0, 0.8, 0.4 and 0
\* give 10 m, 20 m, 50 m and 80 m
C25_ClampedStep ==
    conversion' # conversion =>
        /\ conversion'[1].distance >= 8 * 10
        /\ conversion'[1].distance <= 8 * 80
        /\ (~calibrated =>
               /\ Heuristic(100, 10) /\ Heuristic(80, 20)
               /\ Heuristic(40, 50) /\ Heuristic(0, 80)
               /\ (conversion # None
                       /\ conversion'[1].depth >= conversion[1].depth
                     => conversion'[1].distance <= conversion[1].distance))

C25_Clamped == [][C25_ClampedStep]_vars

\* A calibrated tracker was given a depth below 0 and returned 80 m
C25_Witness ==
    /\ calibrated
    /\ conversion # None
    /\ conversion[1].depth < 0
    /\ conversion[1].distance = 8 * 80

\* An uncalibrated tracker was given a depth above 1 and returned 10 m
C25_AboveOne ==
    /\ ~calibrated
    /\ conversion # None
    /\ conversion[1].depth > 200
    /\ conversion[1].distance = 8 * 10

\* An uncalibrated tracker returned a distance strictly between the ends
C25_Inside ==
    /\ ~calibrated
    /\ conversion # None
    /\ conversion[1].distance = 8 * 35

\* The reference pair the constructor was given
Supplied(x) == x # None

\* C27: the tracker is calibrated exactly when both reference_distance and
\* reference_depth are supplied, for every reference_depth in [0, 1], 0
\* included, and uncalibrated when neither is supplied
C27_AllOrNothing ==
    conversion # None =>
        /\ (Supplied(reference.distance) /\ Supplied(reference.depth)
                /\ reference.distance[1] > 0
              => calibrated)
        /\ (~Supplied(reference.distance) /\ ~Supplied(reference.depth)
              => ~calibrated)

\* What the constructor does: calibrated exactly when both are supplied
\* and neither is zero; then the scale and the offset are set, else neither
C27_BothNonZero ==
    /\ calibrated = (/\ Supplied(reference.distance)
                     /\ Supplied(reference.depth)
                     /\ reference.distance[1] # 0
                     /\ reference.depth[1] # 0)
    /\ calibrated = (depth_scale_factor # None)
    /\ calibrated = (depth_offset # None)

\* A reference pair with the depth 0 was supplied, and depth_to_distance
\* answered with the heuristic: 20 m at the depth 0.8 instead of
\* 20 * 0.2 / 1.01 + 10 m
C27_Witness ==
    /\ reference = [ distance |-> Some(20), depth |-> Some(0) ]
    /\ ~calibrated
    /\ conversion = Some([ depth |-> 160, distance |-> 8 * 20 ])

\* C28: a tracker calibrated from a pair whose reference distance is from
\* 10 m to 80 m maps the reference depth to the reference distance
C28_ReferenceRoundTrip ==
    /\ calibrated
    /\ reference.distance[1] >= 10
    /\ reference.distance[1] <= 80
    /\ conversion # None
    /\ conversion[1].depth = 2 * reference.depth[1]
    => conversion[1].distance = 8 * reference.distance[1]

\* What the calibrated mapping gives at the reference depth: never less
\* than the reference distance while the depth is at most 0.93
C28_Overestimates ==
    /\ calibrated
    /\ reference.distance[1] >= 10
    /\ reference.distance[1] <= 80
    /\ reference.depth[1] <= 93
    /\ conversion # None
    /\ conversion[1].depth = 2 * reference.depth[1]
    => conversion[1].distance >= 8 * reference.distance[1]

\* Calibrated with 20 m at the depth 0.5, the depth 0.5 gives 29.6 m
C28_Witness ==
    /\ calibrated
    /\ reference = [ distance |-> Some(20), depth |-> Some(50) ]
    /\ conversion # None
    /\ conversion[1].depth = 100
    /\ conversion[1].distance = 236

\* ==================================================================
\* SpecTrack, continued

\* C26: an evicted track is destroyed: once assign_track_ids has deleted a
\* TrackID from the active table, no history and no speed estimate is left
\* for that TrackID
C26_EvictionDestroysTrack ==
    \A tid \in evicted :
        /\ tid \notin Ids(active_tracks)
        /\ tid \notin DOMAIN track_history
        /\ tid \notin DOMAIN speed_estimates

\* What the eviction does: the evicted TrackIDs leave the active table, and
\* the call that evicts them leaves their histories and their speed
\* estimates as they were
C26_EvictionStep ==
    \A tid \in evicted' \ evicted :
        /\ tid \notin Ids(active_tracks')
        /\ Get(track_history', tid) = Get(track_history, tid)
        /\ (tid \in DOMAIN speed_estimates')
               = (tid \in DOMAIN speed_estimates)

C26_EvictionLeavesHistory == [][C26_EvictionStep]_vars

\* A track was evicted and its history is still stored
C26_Witness ==
    \E tid \in evicted :
        /\ tid \notin Ids(active_tracks)
        /\ HasHistory(track_history, tid)

\* C29: a track created in an assign_track_ids call is not matched by a later
\* candidate of the same call: the candidates of one call that matched no
\* older track have pairwise distinct fresh TrackIDs, however close they
\* are, and a candidate is matched only to a track that had a history
\* sample when the call began
C29_NewTrackNotMatchable ==
    /\ \A j, k \in 1..Len(objects) :
           j < k /\ IsFresh(objects[j].track_id)
             => objects[k].track_id # objects[j].track_id
    /\ \A j \in 1..Len(objects) :
           \/ IsFresh(objects[j].track_id)
           \/ HasHistory(pre.hist, objects[j].track_id)

\* Two candidates at the same place in one call received two fresh TrackIDs
C29_Witness ==
    \E j, k \in 1..Len(objects) :
        /\ j < k
        /\ objects[j].center = objects[k].center
        /\ IsFresh(objects[j].track_id)
        /\ IsFresh(objects[k].track_id)
        /\ objects[j].track_id # objects[k].track_id

\* A candidate was matched to a track whose only history sample was
\* appended by the process_frame call that created it
C29_MatchedNextFrame ==
    \E j \in 1..Len(objects) :
        /\ ~IsFresh(objects[j].track_id)
        /\ Len(Get(pre.hist, objects[j].track_id)) = 1
        /\ objects[j].track_id = pre.issued[Len(pre.issued)]

\* ==================================================================
\* SpecSpeed, continued: the combined pipeline. Track 0 is detected in
\* every frame, so ncalls counts the frames in which it was detected

\* C30: in the combined pipeline a detection adds exactly one sample per
\* frame to the ratio tracker's history of its TrackID: after n frames in
\* which the track was detected, n samples have been recorded for it
C30_OneSamplePerFrame ==
    engine = "combined" => Len(Get(ratio_appended, 0)) = ncalls

\* What process_frame does: two samples per frame, the one appended by
\* VehicleSpeedTracker.calculate_speed and the same position and time
\* again, appended by process_frame itself
C30_TwoSamplesPerFrame ==
    engine = "combined" =>
        /\ Len(Get(ratio_appended, 0)) = 2 * ncalls
        /\ \A k \in 1..ncalls :
               ratio_appended[0][2 * k - 1] = ratio_appended[0][2 * k]
        /\ (ncalls >= 1 =>
               ratio_track_history[0][Len(ratio_track_history[0])]
                   = ratio_appended[0][2 * ncalls])

\* The ratio speed of a track was returned in the sixth frame in which it
\* was detected, four frames before the floor of 10 samples allows it
C30_Witness ==
    /\ engine = "combined"
    /\ ncalls = 6
    /\ Len(ratio_appended[0]) = 12
    /\ returned[1].tid = 0
    /\ returned[1].speed # None

====
